---- MODULE Spec2Model ----
(***************************************************************************)
(* Water-quality inference pipeline of the AquaSense backend:              *)
(*   ml/water_quality_predictor.py   WaterQualityPredictor                 *)
(*   services/analysis_service.py    AnalysisService                       *)
(*   ai/gemini_client.py             GeminiClient                          *)
(*                                                                         *)
(* Floating-point quantities are fixed-point integers in thousandths:      *)
(* 26.0 is 26000, 0.001 is 1, a probability 0.8 is 800.                    *)
(* A Python value is a tuple: None is <<>>, the float v is <<v>>.           *)
(***************************************************************************)
EXTENDS Integers, Sequences, FiniteSets, TLC

VARIABLES
    phase,           \* "new" before WaterQualityPredictor.__init__, then "constructed"
    model,           \* self.model: None or <<artifact>>
    model_path,      \* self.model_path
    quality_labels,  \* self.quality_labels: class index -> label
    load_count,      \* number of _load_model runs on this instance
    ctor_raised,     \* exception that escaped __init__, or "none"
    wq_reading,      \* the reading object under study (caller-owned)
    last_call,       \* what the latest call on the predictor did and returned
    probe_results,   \* the results predict returned for wq_reading, in call order
    db_readings,     \* water_quality_readings table: tank id -> readings, oldest first
    last_request,    \* what the latest analyze_tank request did and returned
    products,        \* products table: product id -> stock_quantity
    orders,          \* orders table: order id -> None or <<row>>
    shop_last,       \* what the latest products/orders request did and returned
    _sessions,       \* SessionMemory._sessions: session id -> None (no key) or <<history>>
    _session_timestamps, \* SessionMemory._session_timestamps: session id -> None or <<time>>
    now,             \* what datetime.utcnow() returns, in minutes
    memories,        \* the SessionMemory objects: their session_id and max_history
    mem_log,         \* per session, the messages added since its last clear
    mem_last,        \* what the latest SessionMemory call did and returned
    connections,     \* WebSocket connections: "new", "open" or "closed", and their session
    active_connections, \* the module-level dict: session id -> None (no key) or <<connection>>
    ws_last,         \* what the endpoint did last: the message handled, the responses sent
    score_call,      \* a call of _calculate_health_score: its arguments and its result
    disease_call     \* a call of DiseaseClassifier.predict: its arguments and its result

vars == <<phase, model, model_path, quality_labels, load_count, ctor_raised,
          wq_reading, last_call, probe_results, db_readings, last_request,
          products, orders, shop_last, _sessions, _session_timestamps, now,
          memories, mem_log, mem_last,
          connections, active_connections, ws_last, score_call, disease_call>>

predictor_vars == <<phase, model, model_path, quality_labels, load_count, ctor_raised,
                    wq_reading, last_call, probe_results>>

service_vars == <<db_readings, last_request>>

shop_vars == <<products, orders, shop_last>>

memory_vars == <<_sessions, _session_timestamps, now, memories, mem_log, mem_last>>

voice_vars == <<connections, active_connections, ws_last>>

score_vars == <<score_call>>

classifier_vars == <<disease_call>>

None == <<>>

Some(v) == <<v>>

Val(opt) == opt[1]

(***************************************************************************)
(* Bounds                                                                  *)
(***************************************************************************)
\* how many distinct measured values a field of a reading may take
NumVals == 2

\* how many differently trained conforming artifacts are considered
NumSeeds == 2

\* minutes the clock of the session store runs
MaxClock == 2

\* rows the water_quality_readings table may hold
MaxReadings == 2

\* predict calls on wq_reading whose results are kept for comparison
MaxProbeCalls == 2

\* largest stock_quantity a product starts with
MaxStock == 2

\* largest quantity one order item asks for
MaxQuantity == 2

\* most items in one order body
MaxItems == 2

\* largest max_history a SessionMemory is constructed with
MaxHistory == 2

\* most messages added to a session between two clears
MaxMessages == 2

\* measured values in thousandths; the first is 0.0 (present, not absent)
SampleVals == <<0, 25000, 7200, 30000>>

FieldVals == {SampleVals[i] : i \in 1..NumVals}

OptField == {None} \cup {Some(v) : v \in FieldVals}

TrackableFields == <<"temperature", "turbidity", "dissolved_oxygen", "ph", "ammonia", "nitrite">>

\* every reading object carrying the six trackable attributes
Readings ==
    [temperature : OptField, turbidity : OptField, dissolved_oxygen : OptField,
     ph : OptField, ammonia : OptField, nitrite : OptField]

\* an object passed as reading that lacks the attributes (e.g. None)
MalformedReading == [malformed |-> TRUE]

IsMalformed(r) == "malformed" \in DOMAIN r

AllAbsent ==
    [temperature |-> None, turbidity |-> None, dissolved_oxygen |-> None,
     ph |-> None, ammonia |-> None, nitrite |-> None]

\* test_predictor_class, test case 3: only temperature and pH
SparseReading ==
    [temperature |-> Some(25000), turbidity |-> None, dissolved_oxygen |-> None,
     ph |-> Some(7200), ammonia |-> None, nitrite |-> None]

\* spec example "excellent conditions"
CompleteReading ==
    [temperature |-> Some(26000), turbidity |-> Some(30000), dissolved_oxygen |-> Some(8000),
     ph |-> Some(7500), ammonia |-> Some(10), nitrite |-> Some(10)]

\* readings of calls made in between the calls on wq_reading
OtherReadings == {SparseReading, CompleteReading, MalformedReading}

(***************************************************************************)
(* _prepare_features                                                       *)
(***************************************************************************)
\* the defaults dict of _prepare_features
defaults ==
    [BOD__mg_L_ |-> 3000, CO2 |-> 5000, Alkalinity__mg_L_1__ |-> 100000,
     Hardness__mg_L_1__ |-> 150000, Calcium__mg_L_1__ |-> 60000,
     Phosphorus__mg_L_1__ |-> 50, H2S__mg_L_1__ |-> 1, Plankton__No__L_1_ |-> 5000000]

\* variant: `x or d`, which also replaces a measured 0.0
OrDefault_falsy(opt, d) == IF opt # None /\ opt # Some(0) THEN opt ELSE Some(d)

\* `x if x is not None else d`
OrDefault(opt, d) == IF opt # None THEN opt ELSE Some(d)

\* variant: a field is reported when it is falsy (`if not x`) instead of None
MissingIfNone_falsy(opt, name) == IF opt = None \/ opt = Some(0) THEN <<name>> ELSE <<>>

\* `if x is None: missing.append(name)`
MissingIfNone(opt, name) == IF opt = None THEN <<name>> ELSE <<>>

\* variant: temperature appended without its default
PreparedFeatures_raw_temperature(r) ==
    << r.temperature,
       OrDefault(r.turbidity, 5000),
       OrDefault(r.dissolved_oxygen, 7000),
       Some(defaults.BOD__mg_L_),
       Some(defaults.CO2),
       OrDefault(r.ph, 7500),
       Some(defaults.Alkalinity__mg_L_1__),
       Some(defaults.Hardness__mg_L_1__),
       Some(defaults.Calcium__mg_L_1__),
       OrDefault(r.ammonia, 10),
       OrDefault(r.nitrite, 10),
       Some(defaults.Phosphorus__mg_L_1__),
       Some(defaults.H2S__mg_L_1__),
       Some(defaults.Plankton__No__L_1_) >>

\* variant: pH appended before BOD and CO2
PreparedFeatures_ph_early(r) ==
    << OrDefault(r.temperature, 26000),
       OrDefault(r.turbidity, 5000),
       OrDefault(r.dissolved_oxygen, 7000),
       OrDefault(r.ph, 7500),
       Some(defaults.BOD__mg_L_),
       Some(defaults.CO2),
       Some(defaults.Alkalinity__mg_L_1__),
       Some(defaults.Hardness__mg_L_1__),
       Some(defaults.Calcium__mg_L_1__),
       OrDefault(r.ammonia, 10),
       OrDefault(r.nitrite, 10),
       Some(defaults.Phosphorus__mg_L_1__),
       Some(defaults.H2S__mg_L_1__),
       Some(defaults.Plankton__No__L_1_) >>

\* the features list after the fourteen appends, as row 0 of the returned array
PreparedFeatures(r) ==
    << OrDefault(r.temperature, 26000),
       OrDefault(r.turbidity, 5000),
       OrDefault(r.dissolved_oxygen, 7000),
       Some(defaults.BOD__mg_L_),
       Some(defaults.CO2),
       OrDefault(r.ph, 7500),
       Some(defaults.Alkalinity__mg_L_1__),
       Some(defaults.Hardness__mg_L_1__),
       Some(defaults.Calcium__mg_L_1__),
       OrDefault(r.ammonia, 10),
       OrDefault(r.nitrite, 10),
       Some(defaults.Phosphorus__mg_L_1__),
       Some(defaults.H2S__mg_L_1__),
       Some(defaults.Plankton__No__L_1_) >>

\* the missing list after the appends, in append order
PreparedMissing(r) ==
    MissingIfNone(r.temperature, "temperature")
    \o MissingIfNone(r.turbidity, "turbidity")
    \o MissingIfNone(r.dissolved_oxygen, "dissolved_oxygen")
    \o <<"BOD">>
    \o <<"CO2">>
    \o MissingIfNone(r.ph, "ph")
    \o <<"Alkalinity">>
    \o <<"Hardness">>
    \o <<"Calcium">>
    \o MissingIfNone(r.ammonia, "ammonia")
    \o MissingIfNone(r.nitrite, "nitrite")
    \o <<"Phosphorus">>
    \o <<"H2S">>
    \o <<"Plankton">>

\* returns (features_array, missing_features_list)
_prepare_features(r) == [features |-> PreparedFeatures(r), missing |-> PreparedMissing(r)]

(***************************************************************************)
(* The model artifact (ml_tank/aqua_sense_model.pkl) as joblib.load        *)
(* returns it: a fitted random forest.                                     *)
(***************************************************************************)
\* the artifact the code expects: 14 features, classes 0, 1, 2
ConformingArtifacts ==
    {[n_features_in_ |-> 14, classes_ |-> <<0, 1, 2>>, seed |-> s] : s \in 0..(NumSeeds - 1)}

\* artifacts that load but break an assumption of predict
OffContractArtifacts ==
    {[n_features_in_ |-> 13, classes_ |-> <<0, 1, 2>>, seed |-> 0],
     [n_features_in_ |-> 14, classes_ |-> <<0, 1, 2, 3>>, seed |-> 0],
     [n_features_in_ |-> 14, classes_ |-> <<0, 1>>, seed |-> 0]}

Artifacts == ConformingArtifacts \cup OffContractArtifacts

\* what joblib.load(self.model_path) can do
LoadOutcomes ==
    {[exc |-> "FileNotFoundError", artifact |-> None],
     [exc |-> "UnpicklingError", artifact |-> None]}
    \cup {[exc |-> "none", artifact |-> Some(a)] : a \in Artifacts}

\* averaged tree votes a forest over k classes can give, summing to 1000
VotePatterns(k) ==
    CASE k = 2 -> << <<700, 300>>, <<500, 500>> >>
      [] k = 3 -> << <<700, 200, 100>>, <<400, 400, 200>>, <<334, 333, 333>> >>
      [] OTHER -> << <<600, 200, 100, 100>>, <<250, 250, 250, 250>> >>

Rotate(p, rot) == [i \in 1..Len(p) |-> p[((i - 1 + Len(p) - rot) % Len(p)) + 1]]

RECURSIVE WeightedSum(_, _)
WeightedSum(X, i) == IF i > Len(X) THEN 0 ELSE i * (Val(X[i]) \div 1000) + WeightedSum(X, i + 1)

\* the fitted trees: a fixed function of the feature row, different per artifact
FeatureHash(a, X) == a.seed + WeightedSum(X, 1)

\* the input check both model calls make: column count and no missing value
RejectsInput(a, X) == Len(X) # a.n_features_in_ \/ \E i \in 1..Len(X) : X[i] = None

\* the class probabilities of a valid feature row, in classes_ order
ForestProba(a, X) ==
    LET pats == VotePatterns(Len(a.classes_))
        h == FeatureHash(a, X)
    IN  Rotate(pats[(h % Len(pats)) + 1], (h \div Len(pats)) % Len(a.classes_))

\* self.model.predict_proba(features)[0]
model_predict_proba(a, X) ==
    IF RejectsInput(a, X)
    THEN [exc |-> "ValueError", val |-> <<>>]
    ELSE [exc |-> "none", val |-> ForestProba(a, X)]

\* numpy.argmax: index (1-based here) of the first maximum
ArgMax(p) == CHOOSE i \in 1..Len(p) :
    /\ \A j \in 1..Len(p) : p[j] <= p[i]
    /\ \A j \in 1..(i - 1) : p[j] < p[i]

\* self.model.predict(features)[0]: classes_.take(argmax(predict_proba))
model_predict(a, X) ==
    IF RejectsInput(a, X)
    THEN [exc |-> "ValueError", val |-> -1]
    ELSE [exc |-> "none", val |-> a.classes_[ArgMax(ForestProba(a, X))]]

(***************************************************************************)
(* WaterQualityPredictor.predict                                           *)
(***************************************************************************)
\* variant: the labels of classes 0 and 2 exchanged
InitialQualityLabels_reversed == (0 :> "Poor") @@ (1 :> "Good") @@ (2 :> "Excellent")

\* {0: "Excellent", 1: "Good", 2: "Poor"} as assigned in __init__
InitialQualityLabels == (0 :> "Excellent") @@ (1 :> "Good") @@ (2 :> "Poor")

FeatureNames ==
    <<"Temp", "Turbidity__cm_", "DO_mg_L_", "BOD__mg_L_", "CO2", "pH",
      "Alkalinity__mg_L_1__", "Hardness__mg_L_1__", "Calcium__mg_L_1__",
      "Ammonia__mg_L_1__", "Nitrite__mg_L_1__", "Phosphorus__mg_L_1__",
      "H2S__mg_L_1__", "Plankton__No__L_1_">>

\* the features_used dict: name -> float(features[0, i])
FeaturesUsed(X) == [i \in 1..14 |-> <<FeatureNames[i], Val(X[i])>>]

\* variant: confidence read at index 0 instead of at the predicted class
ResultDict_confidence_of_class0(labels, prediction_class, probabilities, prep) ==
    [prediction |-> labels[prediction_class],
     prediction_class |-> prediction_class,
     confidence |-> probabilities[1],
     probabilities |-> [Excellent |-> probabilities[1],
                        Good |-> probabilities[2],
                        Poor |-> probabilities[3]],
     features_used |-> FeaturesUsed(prep.features),
     missing_features |-> prep.missing]

\* the result dict, once the label and the probabilities it reads exist
ResultDict(labels, prediction_class, probabilities, prep) ==
    [prediction |-> labels[prediction_class],
     prediction_class |-> prediction_class,
     confidence |-> probabilities[prediction_class + 1],
     probabilities |-> [Excellent |-> probabilities[1],
                        Good |-> probabilities[2],
                        Poor |-> probabilities[3]],
     features_used |-> FeaturesUsed(prep.features),
     missing_features |-> prep.missing]

\* variant: the handler is `except ValueError`
ExceptClauseCatches_value_error_only(exc) == exc = "ValueError"

\* `except Exception`: every exception the body can raise derives from Exception
ExceptClauseCatches(exc) == exc \in {"AttributeError", "ValueError", "KeyError", "IndexError"}

\* `return result` at the end of the try block
Returned(ret, proba) ==
    [ret |-> Some(ret), caught |-> "none", propagated |-> "none",
     prepared |-> TRUE, model_calls |-> 2, proba |-> Some(proba)]

\* an exception raised in the try block after `calls` model calls: the except
\* clause logs it and returns None, or it leaves predict
Raised(exc, prepared, calls, proba) ==
    [ret |-> None,
     caught |-> IF ExceptClauseCatches(exc) THEN exc ELSE "none",
     propagated |-> IF ExceptClauseCatches(exc) THEN "none" ELSE exc,
     prepared |-> prepared, model_calls |-> calls, proba |-> proba]

\* the `result = {...}` statement after the two model calls, and the return
FormatResult(labels, prediction_class, probabilities, prep) ==
    IF prediction_class \notin DOMAIN labels
    THEN Raised("KeyError", TRUE, 2, Some(probabilities))
    ELSE IF prediction_class + 1 > Len(probabilities) \/ Len(probabilities) < 3
    THEN Raised("IndexError", TRUE, 2, Some(probabilities))
    ELSE IF Len(prep.features) < 14
    THEN Raised("IndexError", TRUE, 2, Some(probabilities))
    ELSE Returned(ResultDict(labels, prediction_class, probabilities, prep), probabilities)

\* the try statement of predict
TryPredict(self_model, labels, r) ==
    IF IsMalformed(r)
    THEN Raised("AttributeError", FALSE, 0, None)
    ELSE IF self_model = None
    THEN Raised("AttributeError", TRUE, 0, None)
    ELSE IF RejectsInput(Val(self_model), PreparedFeatures(r))
    THEN Raised("ValueError", TRUE, 1, None)
    ELSE FormatResult(labels,
                      model_predict(Val(self_model), PreparedFeatures(r)).val,
                      model_predict_proba(Val(self_model), PreparedFeatures(r)).val,
                      _prepare_features(r))

\* variant: no `if not self.model` guard before the try
predict_unguarded(self_model, labels, r) == TryPredict(self_model, labels, r)

\* predict(wq_reading) on a predictor whose fields are self_model and labels
predict(self_model, labels, r) ==
    IF self_model = None
    THEN [ret |-> None, caught |-> "none", propagated |-> "none",
          prepared |-> FALSE, model_calls |-> 0, proba |-> None]
    ELSE TryPredict(self_model, labels, r)

(***************************************************************************)
(* WaterQualityPredictor: construction and calls on one instance           *)
(***************************************************************************)
\* the `except Exception` of _load_model
LoadExceptCatches(exc) == exc \in {"FileNotFoundError", "UnpicklingError"}

\* _load_model: self.model after it, and the exception leaving it
_load_model(outcome) ==
    IF outcome.exc = "none" THEN [model |-> outcome.artifact, raised |-> "none"]
    ELSE IF LoadExceptCatches(outcome.exc) THEN [model |-> None, raised |-> "none"]
    ELSE [model |-> None, raised |-> outcome.exc]

NoCall ==
    [op |-> "none", reading |-> None, ret |-> None, caught |-> "none", propagated |-> "none",
     prepared |-> FALSE, model_calls |-> 0, proba |-> None]

PredictorInit ==
    /\ phase = "new"
    /\ model = None
    /\ model_path = None
    /\ quality_labels = None
    /\ load_count = 0
    /\ ctor_raised = "none"
    /\ wq_reading \in Readings
    /\ last_call = NoCall
    /\ probe_results = <<>>

\* WaterQualityPredictor.__init__
WaterQualityPredictor_init(outcome) ==
    /\ phase = "new"
    /\ model' = _load_model(outcome).model
    /\ ctor_raised' = _load_model(outcome).raised
    /\ model_path' = "ml_tank/aqua_sense_model.pkl"
    /\ quality_labels' = InitialQualityLabels
    /\ load_count' = load_count + 1
    /\ phase' = "constructed"
    /\ UNCHANGED <<wq_reading, last_call, probe_results>>

\* the record of a predict call: its argument and what predict did
PredictCall(r, o) ==
    [op |-> "predict", reading |-> Some(r), ret |-> o.ret, caught |-> o.caught,
     propagated |-> o.propagated, prepared |-> o.prepared,
     model_calls |-> o.model_calls, proba |-> o.proba]

\* variant: the except handler also drops the model (self.model = None)
Predict_unloads_on_error(r) ==
    /\ phase = "constructed"
    /\ ctor_raised = "none"
    /\ r = wq_reading => Len(probe_results) < MaxProbeCalls
    /\ \E o \in {predict(model, quality_labels, r)} :
        /\ last_call' = PredictCall(r, o)
        /\ probe_results' = IF r = wq_reading /\ o.propagated = "none"
                            THEN Append(probe_results, o.ret)
                            ELSE probe_results
        /\ model' = IF o.caught # "none" THEN None ELSE model
    /\ UNCHANGED <<phase, model_path, quality_labels, load_count, ctor_raised, wq_reading>>

\* variant: predict retries _load_model when the model is not loaded
Predict_retries_load(r) ==
    /\ phase = "constructed"
    /\ ctor_raised = "none"
    /\ load_count < 3
    /\ r = wq_reading => Len(probe_results) < MaxProbeCalls
    /\ \E outcome \in LoadOutcomes :
        /\ model' = IF model = None THEN _load_model(outcome).model ELSE model
        /\ load_count' = IF model = None THEN load_count + 1 ELSE load_count
        /\ \E o \in {predict(model', quality_labels, r)} :
            /\ last_call' = PredictCall(r, o)
            /\ probe_results' = IF r = wq_reading /\ o.propagated = "none"
                                THEN Append(probe_results, o.ret)
                                ELSE probe_results
    /\ UNCHANGED <<phase, model_path, quality_labels, ctor_raised, wq_reading>>

\* await predictor.predict(r): predict assigns no attribute of self
Predict(r) ==
    /\ phase = "constructed"
    /\ ctor_raised = "none"
    /\ r = wq_reading => Len(probe_results) < MaxProbeCalls
    /\ \E o \in {predict(model, quality_labels, r)} :
        /\ last_call' = PredictCall(r, o)
        /\ probe_results' = IF r = wq_reading /\ o.propagated = "none"
                            THEN Append(probe_results, o.ret)
                            ELSE probe_results
    /\ UNCHANGED <<phase, model, model_path, quality_labels, load_count, ctor_raised,
                   wq_reading>>

\* variant: _prepare_features stores each default it used into the reading
PrepareFeatures_fills_reading ==
    /\ phase = "constructed"
    /\ ctor_raised = "none"
    /\ last_call' = [op |-> "_prepare_features", reading |-> Some(wq_reading),
                     ret |-> Some(_prepare_features(wq_reading)),
                     caught |-> "none", propagated |-> "none",
                     prepared |-> TRUE, model_calls |-> 0, proba |-> None]
    /\ wq_reading' = [temperature |-> OrDefault(wq_reading.temperature, 26000),
                      turbidity |-> OrDefault(wq_reading.turbidity, 5000),
                      dissolved_oxygen |-> OrDefault(wq_reading.dissolved_oxygen, 7000),
                      ph |-> OrDefault(wq_reading.ph, 7500),
                      ammonia |-> OrDefault(wq_reading.ammonia, 10),
                      nitrite |-> OrDefault(wq_reading.nitrite, 10)]
    /\ UNCHANGED <<phase, model, model_path, quality_labels, load_count, ctor_raised,
                   probe_results>>

\* predictor._prepare_features(wq_reading), called directly
PrepareFeatures ==
    /\ phase = "constructed"
    /\ ctor_raised = "none"
    /\ last_call' = [op |-> "_prepare_features", reading |-> Some(wq_reading),
                     ret |-> Some(_prepare_features(wq_reading)),
                     caught |-> "none", propagated |-> "none",
                     prepared |-> TRUE, model_calls |-> 0, proba |-> None]
    /\ UNCHANGED <<phase, model, model_path, quality_labels, load_count, ctor_raised,
                   wq_reading, probe_results>>

(***************************************************************************)
(* The database: tanks and their water-quality readings                    *)
(***************************************************************************)
DefaultUser == "default_user_001"

Users == {DefaultUser, "user_2"}

\* the tanks table: tank id -> owner
TankOwner == [tank_a |-> DefaultUser, tank_b |-> "user_2"]

TankIds == DOMAIN TankOwner

\* ids a request may name: the two tanks and one that does not exist
RequestTankIds == TankIds \cup {"tank_x"}

\* a row as seed_data.py inserts it, turbidity included
SeedRow ==
    [temperature |-> Some(25000), turbidity |-> Some(30000), dissolved_oxygen |-> Some(7200),
     ph |-> Some(7200), ammonia |-> Some(0), nitrite |-> None]

\* WaterQualityCreate bodies: ph, temperature, dissolved_oxygen required
Submissions ==
    {[temperature |-> Some(t), turbidity |-> Some(30000), dissolved_oxygen |-> Some(7200),
      ph |-> Some(7200), ammonia |-> am, nitrite |-> None] :
        t \in FieldVals, am \in {None, Some(0)}}

\* TankService.get_tank_by_id: Tank.id == tank_id and Tank.user_id == self.user_id
get_tank_by_id(user_id, tank_id) ==
    IF tank_id \in TankIds /\ TankOwner[tank_id] = user_id THEN Some(tank_id) ELSE None

\* the WaterQuality row add_water_quality_reading builds from the body
NewRow(reading) ==
    [temperature |-> reading.temperature, turbidity |-> None,
     dissolved_oxygen |-> reading.dissolved_oxygen, ph |-> reading.ph,
     ammonia |-> reading.ammonia, nitrite |-> reading.nitrite]

\* variant: the query orders by created_at ascending, so the oldest row comes first
get_latest_water_quality_oldest(rows, tank_id) ==
    IF tank_id \in DOMAIN rows /\ Len(rows[tank_id]) > 0
    THEN Some(rows[tank_id][1])
    ELSE None

\* TankService.get_latest_water_quality: newest created_at of the tank, any user
get_latest_water_quality(rows, tank_id) ==
    IF tank_id \in DOMAIN rows /\ Len(rows[tank_id]) > 0
    THEN Some(rows[tank_id][Len(rows[tank_id])])
    ELSE None

\* TankService.get_water_quality_readings with skip 0 and the default limit:
\* the tank's rows, newest first, for any user
get_water_quality_readings(rows, tank_id) ==
    IF tank_id \in DOMAIN rows
    THEN [i \in 1..Len(rows[tank_id]) |-> rows[tank_id][Len(rows[tank_id]) + 1 - i]]
    ELSE <<>>

RECURSIVE TotalRows(_, _)
TotalRows(rows, ids) ==
    IF ids = {} THEN 0
    ELSE LET t == CHOOSE x \in ids : TRUE IN Len(rows[t]) + TotalRows(rows, ids \ {t})

(***************************************************************************)
(* GeminiClient                                                            *)
(***************************************************************************)
\* the public methods class GeminiClient defines
GeminiClientMethods ==
    {"analyze_disease", "analyze_water_quality", "get_tank_recommendations",
     "process_voice_query", "get_recommendation"}

\* what the Gemini service does during one request: generate_content raises or
\* answers the water-quality prompt with a text, of which only the status words
\* and the issue lines matter to the parser; likewise for the recommendations
GeminiOutcomes ==
    {[exc |-> "APIError", mentions |-> {}, issue_lines |-> 0, recs_exc |-> "APIError"],
     [exc |-> "APIError", mentions |-> {}, issue_lines |-> 0, recs_exc |-> "none"],
     [exc |-> "none", mentions |-> {}, issue_lines |-> 0, recs_exc |-> "none"],
     [exc |-> "none", mentions |-> {"excellent"}, issue_lines |-> 0, recs_exc |-> "APIError"],
     [exc |-> "none", mentions |-> {"fair", "excellent"}, issue_lines |-> 0, recs_exc |-> "none"],
     [exc |-> "none", mentions |-> {"poor", "fair"}, issue_lines |-> 1, recs_exc |-> "none"],
     [exc |-> "none", mentions |-> {"critical", "poor"}, issue_lines |-> 1, recs_exc |-> "none"]}

\* GeminiClient._parse_water_quality_response
_parse_water_quality_response(g, wq) ==
    [status |-> IF "critical" \in g.mentions THEN "critical"
                ELSE IF "poor" \in g.mentions THEN "poor"
                ELSE IF "fair" \in g.mentions THEN "fair"
                ELSE IF "excellent" \in g.mentions THEN "excellent"
                ELSE "good",
     issues |-> [i \in 1..g.issue_lines |-> "issue line"],
     parameters |-> [ph |-> wq.ph, temperature |-> wq.temperature,
                     dissolved_oxygen |-> wq.dissolved_oxygen]]

\* GeminiClient.analyze_water_quality: the parsed answer, or the fixed dict of
\* the except clause
analyze_water_quality(g, wq) ==
    IF g.exc # "none"
    THEN [status |-> "unknown", issues |-> <<"Unable to analyze water quality">>,
          parameters |-> <<>>]
    ELSE _parse_water_quality_response(g, wq)

(***************************************************************************)
(* AnalysisService                                                         *)
(***************************************************************************)
\* maximum confidences a disease detection can come back with (none, or one)
DiseaseOutcomes == {<<>>, <<300>>, <<500>>, <<700>>, <<900>>}

NoDiseaseOutcome == <<>>

\* AnalysisService._calculate_severity
_calculate_severity(diseases) ==
    IF diseases = <<>> THEN "low"
    ELSE IF diseases[1] >= 800 THEN "critical"
    ELSE IF diseases[1] >= 600 THEN "high"
    ELSE IF diseases[1] >= 400 THEN "medium"
    ELSE "low"

\* status_penalties.get(status, 20)
StatusPenalty(status) ==
    CASE status = "excellent" -> 0
      [] status = "good" -> 5
      [] status = "fair" -> 15
      [] status = "poor" -> 30
      [] status = "critical" -> 50
      [] OTHER -> 20

\* severity_penalties.get(severity, 10)
SeverityPenalty(severity) ==
    CASE severity = "low" -> 5
      [] severity = "medium" -> 15
      [] severity = "high" -> 30
      [] severity = "critical" -> 50
      [] OTHER -> 10

Clamp(lo, hi, x) == IF x < lo THEN lo ELSE IF x > hi THEN hi ELSE x

\* variant: a status missing from the dict costs nothing (`.get(status, 0)`)
_calculate_health_score_unknown_free(water_quality, disease_detection) ==
    Clamp(0, 100,
          100 - (IF water_quality # None
                    /\ Val(water_quality).status \in {"excellent", "good", "fair", "poor", "critical"}
                 THEN StatusPenalty(Val(water_quality).status) ELSE 0)
              - (IF disease_detection # None
                 THEN SeverityPenalty(Val(disease_detection).severity) ELSE 0))

\* AnalysisService._calculate_health_score, in score points
_calculate_health_score(water_quality, disease_detection) ==
    Clamp(0, 100,
          100 - (IF water_quality # None THEN StatusPenalty(Val(water_quality).status) ELSE 0)
              - (IF disease_detection # None
                 THEN SeverityPenalty(Val(disease_detection).severity) ELSE 0))

\* variant: when the predictor returns None no analysis is produced
_analyze_water_quality_no_fallback(self_model, labels, wq, g) ==
    LET o == predict(self_model, labels, wq)
    IN  IF o.ret # None
        THEN [exc |-> "AttributeError", analysis |-> None, ml_prediction |-> o.ret,
              advisory |-> "with_ml", advisory_reading |-> Some(wq)]
        ELSE [exc |-> "TypeError", analysis |-> None, ml_prediction |-> None,
              advisory |-> "none", advisory_reading |-> None]

\* AnalysisService._analyze_water_quality: the WaterQualityAnalysis it returns or
\* the exception leaving it, the prediction it obtained and the advisory call made
_analyze_water_quality(self_model, labels, wq, g) ==
    LET o == predict(self_model, labels, wq)
    IN  IF o.propagated # "none"
        THEN [exc |-> o.propagated, analysis |-> None, ml_prediction |-> None,
              advisory |-> "none", advisory_reading |-> None]
        ELSE IF o.ret # None
        THEN IF "analyze_water_quality_with_ml" \in GeminiClientMethods
             THEN [exc |-> "none",
                   analysis |-> Some([status |-> "unknown", issues |-> <<>>,
                                      parameters |-> <<>>]),
                   ml_prediction |-> o.ret, advisory |-> "with_ml",
                   advisory_reading |-> Some(wq)]
             ELSE [exc |-> "AttributeError", analysis |-> None, ml_prediction |-> o.ret,
                   advisory |-> "with_ml", advisory_reading |-> Some(wq)]
        ELSE [exc |-> "none", analysis |-> Some(analyze_water_quality(g, wq)),
              ml_prediction |-> None, advisory |-> "gemini_only",
              advisory_reading |-> Some(wq)]

NoRequest ==
    [op |-> "none", user_id |-> "", tank_id |-> "", outcome |-> "none", exc |-> "none",
     include_water_quality |-> FALSE, submitted |-> None, rows |-> <<>>,
     response |-> None, predictor_called |-> FALSE, ml_reading |-> None,
     ml_prediction |-> None, advisory |-> "none", advisory_reading |-> None, loads |-> 0]

\* the record of an analyze_tank request that ended before any analysis
EarlyExit(tank_id, outcome, loads) ==
    [NoRequest EXCEPT !.op = "analyze_tank", !.user_id = DefaultUser, !.tank_id = tank_id,
                      !.outcome = outcome, !.loads = loads]

\* AnalysisService(db).analyze_tank(...): the service is built for the request,
\* which loads the model artifact once
analyze_tank(rows, tank_id, include_water_quality, include_disease_check, fish_image_base64, load, g, diseases) ==
    LET self_model == _load_model(load).model
        tank == get_tank_by_id(DefaultUser, tank_id)
        latest_wq == IF include_water_quality
                     THEN get_latest_water_quality(rows, tank_id) ELSE None
        wqa == IF latest_wq # None
               THEN _analyze_water_quality(self_model, InitialQualityLabels, Val(latest_wq), g)
               ELSE [exc |-> "none", analysis |-> None, ml_prediction |-> None,
                     advisory |-> "none", advisory_reading |-> None]
        wq_alerts == IF ~include_water_quality THEN <<>>
                     ELSE IF latest_wq = None
                     THEN <<"No water quality data available. Please add readings.">>
                     ELSE IF wqa.analysis # None
                             /\ Val(wqa.analysis).status \in {"poor", "critical"}
                     THEN Val(wqa.analysis).issues
                     ELSE <<>>
        disease_detection ==
            IF include_disease_check /\ fish_image_base64 # None
            THEN Some([severity |-> _calculate_severity(diseases),
                       urgent_action_required |->
                           _calculate_severity(diseases) \in {"high", "critical"}])
            ELSE None
        dz_alerts == IF disease_detection # None /\ Val(disease_detection).urgent_action_required
                     THEN <<"Urgent: Possible disease detected. Check recommendations.">>
                     ELSE <<>>
        health_score == _calculate_health_score(wqa.analysis, disease_detection)
        recs == IF g.recs_exc = "none" THEN <<"recommendation">>
                ELSE <<"Unable to generate recommendations at this time.">>
    IN  IF tank = None
        THEN [EarlyExit(tank_id, "not_found", 1) EXCEPT
                  !.include_water_quality = include_water_quality]
        ELSE IF wqa.exc # "none"
        THEN [EarlyExit(tank_id, "raised", 1) EXCEPT
                  !.include_water_quality = include_water_quality,
                  !.exc = wqa.exc, !.predictor_called = TRUE, !.ml_reading = latest_wq,
                  !.ml_prediction = wqa.ml_prediction, !.advisory = wqa.advisory,
                  !.advisory_reading = wqa.advisory_reading]
        ELSE [EarlyExit(tank_id, "response", 1) EXCEPT
                  !.include_water_quality = include_water_quality,
                  !.predictor_called = (latest_wq # None), !.ml_reading = latest_wq,
                  !.ml_prediction = wqa.ml_prediction, !.advisory = wqa.advisory,
                  !.advisory_reading = wqa.advisory_reading,
                  !.response = Some([tank_id |-> tank_id,
                                     overall_health_score |-> health_score,
                                     water_quality_analysis |-> wqa.analysis,
                                     disease_detection |-> disease_detection,
                                     general_recommendations |-> recs,
                                     alerts |-> wq_alerts \o dz_alerts])]

\* POST /analysis/tank-analysis; a disease outcome is drawn only when the
\* disease check runs
AnalyzeTank ==
    /\ last_request.op = "none"
    /\ \E tank_id \in RequestTankIds, include_water_quality \in BOOLEAN,
          include_disease_check \in BOOLEAN, fish_image_base64 \in {None, Some("image")},
          load \in LoadOutcomes, g \in GeminiOutcomes, diseases \in DiseaseOutcomes :
        /\ (include_disease_check /\ fish_image_base64 # None) \/ diseases = NoDiseaseOutcome
        /\ last_request' = analyze_tank(db_readings, tank_id, include_water_quality,
                                        include_disease_check, fish_image_base64,
                                        load, g, diseases)
    /\ UNCHANGED db_readings

\* POST /tanks/{tank_id}/water-quality as user_id: TankService.add_water_quality_reading
AddWaterQualityReading ==
    /\ last_request.op = "none"
    /\ TotalRows(db_readings, TankIds) < MaxReadings
    /\ \E user_id \in Users, tank_id \in RequestTankIds, reading \in Submissions :
        IF get_tank_by_id(user_id, tank_id) = None
        THEN /\ last_request' = [NoRequest EXCEPT !.op = "add_water_quality_reading",
                                     !.user_id = user_id, !.tank_id = tank_id,
                                     !.outcome = "not_found"]
             /\ UNCHANGED db_readings
        ELSE /\ db_readings' = [db_readings EXCEPT
                                    ![tank_id] = Append(@, NewRow(reading))]
             /\ last_request' = [NoRequest EXCEPT !.op = "add_water_quality_reading",
                                     !.user_id = user_id, !.tank_id = tank_id,
                                     !.outcome = "response", !.submitted = Some(reading),
                                     !.ml_reading = Some(NewRow(reading))]

\* GET /tanks/{tank_id} as user_id: 404 unless get_tank_by_id finds the tank
GetTank ==
    /\ last_request.op = "none"
    /\ \E user_id \in Users, tank_id \in RequestTankIds :
        last_request' = [NoRequest EXCEPT !.op = "get_tank", !.user_id = user_id,
                             !.tank_id = tank_id,
                             !.outcome = IF get_tank_by_id(user_id, tank_id) = None
                                         THEN "not_found" ELSE "response"]
    /\ UNCHANGED db_readings

\* GET /tanks/{tank_id}/water-quality as user_id: the list the service returns
GetWaterQualityReadings ==
    /\ last_request.op = "none"
    /\ \E user_id \in Users, tank_id \in RequestTankIds :
        last_request' = [NoRequest EXCEPT !.op = "get_water_quality_readings",
                             !.user_id = user_id, !.tank_id = tank_id,
                             !.outcome = "response",
                             !.rows = get_water_quality_readings(db_readings, tank_id)]
    /\ UNCHANGED db_readings

\* GET /tanks/{tank_id}/water-quality/latest as user_id: 404 when the service
\* returns None
GetLatestWaterQuality ==
    /\ last_request.op = "none"
    /\ \E user_id \in Users, tank_id \in RequestTankIds :
        last_request' = [NoRequest EXCEPT !.op = "get_latest_water_quality",
                             !.user_id = user_id, !.tank_id = tank_id,
                             !.outcome = IF get_latest_water_quality(db_readings, tank_id) = None
                                         THEN "not_found" ELSE "response",
                             !.rows = IF get_latest_water_quality(db_readings, tank_id) = None
                                      THEN <<>>
                                      ELSE <<Val(get_latest_water_quality(db_readings, tank_id))>>]
    /\ UNCHANGED db_readings

\* the endpoint returns (the response, 404 or 500) and the request is over
ReturnResponse ==
    /\ last_request.op # "none"
    /\ last_request' = NoRequest
    /\ UNCHANGED db_readings

(***************************************************************************)
(* ProductService: products, orders                                        *)
(***************************************************************************)
ProductIds == {"prod_a", "prod_b"}

\* product ids a body may name: the two products and one that does not exist
RequestProductIds == ProductIds \cup {"prod_x"}

\* ids orders are stored under (uuid4 strings in the code)
\* ids Order rows get, in the order they are handed out
OrderIdSeq == <<"order_1">>

OrderIds == {OrderIdSeq[i] : i \in 1..Len(OrderIdSeq)}

\* the id the next Order row gets (one not in use)
FreeOrderIds(ords) ==
    {OrderIdSeq[i] : i \in {j \in 1..Len(OrderIdSeq) :
        /\ ords[OrderIdSeq[j]] = None
        /\ \A k \in 1..(j - 1) : ords[OrderIdSeq[k]] # None}}

\* ids a request may name: the stored orders' and one that does not exist
RequestOrderIds == OrderIds \cup {"order_x"}

\* OrderItemCreate: product_id, quantity > 0
OrderItemCreate == [product_id : RequestProductIds, quantity : 1..MaxQuantity]

\* OrderCreate.items: at least one item
OrderCreateItems == UNION {[1..n -> OrderItemCreate] : n \in 1..MaxItems}

\* values of Order.status: the five the model's comment lists, and one more
\* that update_order accepts (OrderUpdate.status is any string)
OrderStatuses == {"pending", "confirmed", "shipped", "delivered", "cancelled", "processing"}

\* ProductService.get_product_by_id
get_product_by_id(prods, product_id) ==
    IF product_id \in DOMAIN prods THEN Some(product_id) ELSE None

\* the validation loop of create_order from item i on: the ValueError it
\* raises, or "none"
RECURSIVE ValidateItems(_, _, _)
ValidateItems(prods, items, i) ==
    IF i > Len(items) THEN "none"
    ELSE IF get_product_by_id(prods, items[i].product_id) = None THEN "not found"
    ELSE IF prods[items[i].product_id] < items[i].quantity THEN "Insufficient stock"
    ELSE ValidateItems(prods, items, i + 1)

\* `product.stock_quantity -= item.quantity` for the items from i on
RECURSIVE DeductStock(_, _, _)
DeductStock(prods, items, i) ==
    IF i > Len(items) THEN prods
    ELSE IF get_product_by_id(prods, items[i].product_id) = None
    THEN DeductStock(prods, items, i + 1)
    ELSE DeductStock([prods EXCEPT ![items[i].product_id] = @ - items[i].quantity],
                     items, i + 1)

\* variant: stock is deducted inside the validation loop, item by item, and a
\* later failing item leaves the earlier deductions in the session
RECURSIVE DeductWhileValid(_, _, _)
DeductWhileValid(prods, items, i) ==
    IF i > Len(items) THEN prods
    ELSE IF get_product_by_id(prods, items[i].product_id) = None THEN prods
    ELSE IF prods[items[i].product_id] < items[i].quantity THEN prods
    ELSE DeductWhileValid([prods EXCEPT ![items[i].product_id] = @ - items[i].quantity],
                          items, i + 1)

create_order_deducts_while_validating(prods, user_id, items) ==
    IF ValidateItems(prods, items, 1) # "none"
    THEN [exc |-> "ValueError", detail |-> ValidateItems(prods, items, 1),
          order |-> None, products |-> DeductWhileValid(prods, items, 1)]
    ELSE [exc |-> "none", detail |-> "",
          order |-> Some([user_id |-> user_id, items |-> items, status |-> "pending"]),
          products |-> DeductStock(prods, items, 1)]

\* ProductService.create_order: the exception it raises, the Order it adds and
\* the products table after it
create_order(prods, user_id, items) ==
    IF ValidateItems(prods, items, 1) # "none"
    THEN [exc |-> "ValueError", detail |-> ValidateItems(prods, items, 1),
          order |-> None, products |-> prods]
    ELSE [exc |-> "none", detail |-> "",
          order |-> Some([user_id |-> user_id, items |-> items, status |-> "pending"]),
          products |-> DeductStock(prods, items, 1)]

\* ProductService.get_order_by_id: Order.id == order_id and Order.user_id == self.user_id
get_order_by_id(ords, user_id, order_id) ==
    IF order_id \in DOMAIN ords /\ ords[order_id] # None
       /\ Val(ords[order_id]).user_id = user_id
    THEN ords[order_id] ELSE None

\* `product.stock_quantity += item['quantity']` for the items from i on
RECURSIVE RestoreStock(_, _, _)
RestoreStock(prods, items, i) ==
    IF i > Len(items) THEN prods
    ELSE IF get_product_by_id(prods, items[i].product_id) = None
    THEN RestoreStock(prods, items, i + 1)
    ELSE RestoreStock([prods EXCEPT ![items[i].product_id] = @ + items[i].quantity],
                      items, i + 1)

\* variant: the order is marked cancelled and the stock is left as it is
cancel_order_no_restore(prods, ords, user_id, order_id) ==
    IF get_order_by_id(ords, user_id, order_id) = None
    THEN [exc |-> "none", found |-> FALSE, orders |-> ords, products |-> prods]
    ELSE IF Val(ords[order_id]).status \in {"shipped", "delivered", "cancelled"}
    THEN [exc |-> "ValueError", found |-> TRUE, orders |-> ords, products |-> prods]
    ELSE [exc |-> "none", found |-> TRUE,
          orders |-> [ords EXCEPT ![order_id] = Some([Val(@) EXCEPT !.status = "cancelled"])],
          products |-> prods]

\* ProductService.cancel_order
cancel_order(prods, ords, user_id, order_id) ==
    IF get_order_by_id(ords, user_id, order_id) = None
    THEN [exc |-> "none", found |-> FALSE, orders |-> ords, products |-> prods]
    ELSE IF Val(ords[order_id]).status \in {"shipped", "delivered", "cancelled"}
    THEN [exc |-> "ValueError", found |-> TRUE, orders |-> ords, products |-> prods]
    ELSE [exc |-> "none", found |-> TRUE,
          orders |-> [ords EXCEPT ![order_id] = Some([Val(@) EXCEPT !.status = "cancelled"])],
          products |-> RestoreStock(prods, Val(ords[order_id]).items, 1)]

\* the record of a request before it runs; created is the id of the order the
\* request created
ShopRequest(op, user_id, order_id) ==
    [op |-> op, user_id |-> user_id, order_id |-> order_id, items |-> <<>>, http |-> 200,
     detail |-> "", created |-> ""]

NoShopRequest ==
    [op |-> "none", user_id |-> "", order_id |-> "", items |-> <<>>, http |-> 200,
     detail |-> "", created |-> ""]

ShopInit ==
    /\ products \in [ProductIds -> 0..MaxStock]
    /\ orders = [o \in OrderIds |-> None]
    /\ shop_last = NoShopRequest

ShopIdle ==
    /\ products = [p \in ProductIds |-> 0]
    /\ orders = [o \in OrderIds |-> None]
    /\ shop_last = NoShopRequest

\* POST /orders/ as user_id: 201 with the order, or 400 on ValueError
CreateOrder ==
    \E user_id \in Users, items \in OrderCreateItems, new_id \in FreeOrderIds(orders) :
        /\ \E r \in {create_order(products, user_id, items)} :
            /\ products' = r.products
            /\ orders' = IF r.order # None THEN [orders EXCEPT ![new_id] = r.order] ELSE orders
            /\ shop_last' = [ShopRequest("create_order", user_id, "") EXCEPT
                                 !.items = items,
                                 !.http = IF r.exc = "ValueError" THEN 400 ELSE 201,
                                 !.detail = r.detail,
                                 !.created = IF r.order # None THEN new_id ELSE ""]

\* PATCH /orders/{order_id} as user_id with a status: update_order
UpdateOrder ==
    \E user_id \in Users, order_id \in RequestOrderIds, status \in OrderStatuses :
        /\ orders' = IF get_order_by_id(orders, user_id, order_id) = None THEN orders
                     ELSE [orders EXCEPT ![order_id] = Some([Val(@) EXCEPT !.status = status])]
        /\ shop_last' = [ShopRequest("update_order", user_id, order_id) EXCEPT
                             !.http = IF get_order_by_id(orders, user_id, order_id) = None
                                      THEN 404 ELSE 200]
        /\ UNCHANGED products

\* POST /orders/{order_id}/cancel as user_id: 404, 400 on ValueError, or the order
\* (requests that would raise a stock above MaxStock are not explored)
CancelOrder ==
    \E user_id \in Users, order_id \in RequestOrderIds :
        \E r \in {cancel_order(products, orders, user_id, order_id)} :
            /\ \A p \in ProductIds : r.products[p] <= MaxStock
            /\ products' = r.products
            /\ orders' = r.orders
            /\ shop_last' = [ShopRequest("cancel_order", user_id, order_id) EXCEPT
                                 !.http = IF r.exc = "ValueError" THEN 400
                                          ELSE IF ~r.found THEN 404 ELSE 200,
                                 !.detail = IF r.exc = "ValueError" THEN "Cannot cancel" ELSE ""]

(***************************************************************************)
(* SessionMemory                                                           *)
(***************************************************************************)
SessionIds == {"sess_1", "sess_2"}

\* the SessionMemory objects of a run
MemoryIds == {"mem_1", "mem_2"}

\* the message dicts of add_message, by role and content
Messages == [role : {"user", "assistant"}, content : {"Hello", "Show my tanks"}]

\* Python's seq[-n:]
SliceLast(seq, n) ==
    IF n = 0 THEN seq
    ELSE IF n > 0 THEN SubSeq(seq, (IF Len(seq) > n THEN Len(seq) - n + 1 ELSE 1), Len(seq))
    ELSE SubSeq(seq, (0 - n) + 1, Len(seq))

\* SessionMemory.__init__: the class-level dict after it
SessionMemory_init(sessions, session_id) ==
    IF sessions[session_id] = None THEN [sessions EXCEPT ![session_id] = Some(<<>>)]
    ELSE sessions

\* SessionMemory.__init__: the class-level timestamps after it at time t
SessionMemory_init_timestamps(sessions, stamps, session_id, t) ==
    IF sessions[session_id] = None THEN [stamps EXCEPT ![session_id] = Some(t)]
    ELSE stamps

\* self._sessions[self.session_id] of the defaultdict(list)
SessionList(sessions, session_id) ==
    IF sessions[session_id] = None THEN <<>> ELSE Val(sessions[session_id])

\* variant: the new message is inserted at the front of the list
add_message_prepends(sessions, session_id, max_history, message) ==
    [sessions EXCEPT ![session_id] =
        Some(IF Len(SessionList(sessions, session_id)) + 1 > max_history
             THEN SliceLast(<<message>> \o SessionList(sessions, session_id), max_history)
             ELSE <<message>> \o SessionList(sessions, session_id))]

\* SessionMemory.add_message: append, then trim to the last max_history
add_message(sessions, session_id, max_history, message) ==
    [sessions EXCEPT ![session_id] =
        Some(IF Len(SessionList(sessions, session_id)) + 1 > max_history
             THEN SliceLast(Append(SessionList(sessions, session_id), message), max_history)
             ELSE Append(SessionList(sessions, session_id), message))]

\* variant: every session's last activity is refreshed
add_message_timestamps_all(stamps, session_id, t) ==
    [sid \in DOMAIN stamps |-> IF sid = session_id \/ stamps[sid] # None THEN Some(t) ELSE None]

\* SessionMemory.add_message: `self._session_timestamps[self.session_id] = utcnow()`
add_message_timestamps(stamps, session_id, t) == [stamps EXCEPT ![session_id] = Some(t)]

\* SessionMemory.get_history() with no limit: self._sessions.get(session_id, [])
get_history(sessions, session_id) ==
    IF sessions[session_id] = None THEN <<>> ELSE Val(sessions[session_id])

\* SessionMemory.clear
clear(sessions, session_id) ==
    IF sessions[session_id] # None THEN [sessions EXCEPT ![session_id] = Some(<<>>)]
    ELSE sessions

\* key_absent: the session had no entry in _sessions when add_message ran
NoMemoryCall ==
    [op |-> "none", memory |-> "", ret |-> <<>>, timeout_minutes |-> 0, count |-> 0,
     key_absent |-> FALSE]

MemoryIdle ==
    /\ _sessions = [sid \in SessionIds |-> None]
    /\ _session_timestamps = [sid \in SessionIds |-> None]
    /\ now = 0
    /\ memories = [m \in MemoryIds |-> [session_id |-> "sess_1", max_history |-> 1]]
    /\ mem_log = [sid \in SessionIds |-> <<>>]
    /\ mem_last = NoMemoryCall

\* the state after the SessionMemory objects are constructed
MemoryInit ==
    /\ memories \in [MemoryIds -> [session_id : SessionIds, max_history : 1..MaxHistory]]
    /\ _sessions = [sid \in SessionIds |->
                       IF \E m \in MemoryIds : memories[m].session_id = sid
                       THEN Some(<<>>) ELSE None]
    /\ _session_timestamps = [sid \in SessionIds |->
                                 IF \E m \in MemoryIds : memories[m].session_id = sid
                                 THEN Some(0) ELSE None]
    /\ now = 0
    /\ mem_log = [sid \in SessionIds |-> <<>>]
    /\ mem_last = NoMemoryCall

\* m.add_message(role, content), the message taken from choices
AddMessageFrom(m, choices) ==
    /\ Len(mem_log[memories[m].session_id]) < MaxMessages
    /\ \E message \in choices :
        /\ _sessions' = add_message(_sessions, memories[m].session_id,
                                    memories[m].max_history, message)
        /\ mem_log' = [mem_log EXCEPT ![memories[m].session_id] = Append(@, message)]
    /\ _session_timestamps' = add_message_timestamps(_session_timestamps,
                                                      memories[m].session_id, now)
    /\ mem_last' = [NoMemoryCall EXCEPT !.op = "add_message", !.memory = m,
                                         !.key_absent = (_sessions[memories[m].session_id] = None)]
    /\ UNCHANGED <<memories, now>>

\* m.add_message(role, content)
AddMessage(m) == AddMessageFrom(m, Messages)

\* m.get_history()
GetHistory(m) ==
    /\ mem_last' = [NoMemoryCall EXCEPT !.op = "get_history", !.memory = m,
                                         !.ret = get_history(_sessions, memories[m].session_id)]
    /\ UNCHANGED <<_sessions, _session_timestamps, now, memories, mem_log>>

\* m.clear(), as VoiceService.clear_session calls it
Clear(m) ==
    /\ _sessions' = clear(_sessions, memories[m].session_id)
    /\ mem_log' = [mem_log EXCEPT ![memories[m].session_id] = <<>>]
    /\ mem_last' = [NoMemoryCall EXCEPT !.op = "clear", !.memory = m]
    /\ UNCHANGED <<_session_timestamps, now, memories>>

\* the message the handlers add where only the store's keys and times matter
StoreMessages == {[role |-> "user", content |-> "Hello"]}

\* values a caller passes as timeout_minutes
Timeouts == {0, 1}

\* variant: a session is expired as soon as its timeout has been reached (>=)
ExpiredSessions_at_timeout(stamps, t, timeout_minutes) ==
    {sid \in DOMAIN stamps : stamps[sid] # None /\ t >= Val(stamps[sid]) + timeout_minutes}

\* expired_sessions of cleanup_expired_sessions: current_time > last_activity + timeout
ExpiredSessions(stamps, t, timeout_minutes) ==
    {sid \in DOMAIN stamps : stamps[sid] # None /\ t > Val(stamps[sid]) + timeout_minutes}

\* SessionMemory.cleanup_expired_sessions at time t: both dicts after it and
\* the number it returns
cleanup_expired_sessions(sessions, stamps, t, timeout_minutes) ==
    [sessions |-> [sid \in DOMAIN sessions |->
                      IF sid \in ExpiredSessions(stamps, t, timeout_minutes)
                      THEN None ELSE sessions[sid]],
     stamps |-> [sid \in DOMAIN stamps |->
                    IF sid \in ExpiredSessions(stamps, t, timeout_minutes)
                    THEN None ELSE stamps[sid]],
     count |-> Cardinality(ExpiredSessions(stamps, t, timeout_minutes))]

\* a handler is built for session_id: SessionMemory(session_id, max_history)
\* takes the place of object m
Construct(m) ==
    /\ \E session_id \in SessionIds, max_history \in 1..MaxHistory :
        /\ memories' = [memories EXCEPT ![m] = [session_id |-> session_id,
                                                max_history |-> max_history]]
        /\ _sessions' = SessionMemory_init(_sessions, session_id)
        /\ _session_timestamps' = SessionMemory_init_timestamps(_sessions, _session_timestamps,
                                                                 session_id, now)
    /\ mem_last' = [NoMemoryCall EXCEPT !.op = "__init__", !.memory = m]
    /\ UNCHANGED <<now, mem_log>>

\* SessionMemory.cleanup_expired_sessions(timeout_minutes); the log of a removed
\* session starts again
CleanupExpiredSessions ==
    /\ \E timeout_minutes \in Timeouts :
        \E r \in {cleanup_expired_sessions(_sessions, _session_timestamps, now,
                                           timeout_minutes)} :
            /\ _sessions' = r.sessions
            /\ _session_timestamps' = r.stamps
            /\ mem_log' = [sid \in SessionIds |->
                              IF r.sessions[sid] = None THEN <<>> ELSE mem_log[sid]]
            /\ mem_last' = [NoMemoryCall EXCEPT !.op = "cleanup_expired_sessions",
                                                 !.timeout_minutes = timeout_minutes,
                                                 !.count = r.count]
    /\ UNCHANGED <<now, memories>>

\* a minute passes
Tick ==
    /\ now < MaxClock
    /\ now' = now + 1
    /\ UNCHANGED <<_sessions, _session_timestamps, memories, mem_log, mem_last>>

(***************************************************************************)
(* websocket/message_types.py, websocket/handler.py                        *)
(***************************************************************************)
\* the values of the MessageType enum
MessageType ==
    {"text", "audio", "action", "error", "ping", "pong", "connected", "disconnected"}

\* SessionMemory(session_id) as VoiceService builds it: max_history = 50
DefaultMaxHistory == 50

\* what json.loads can hand to handle_message: a dict with or without a type
\* (any string), or a value that is not a dict
ClientMessages ==
    {[is_dict |-> FALSE, type |-> None, content |-> ""]}
    \cup [is_dict : {TRUE},
          type : {None, Some(""), Some("invalid_type")}
                 \cup {Some(t) : t \in MessageType \ {"text", "action"}},
          content : {""}]
    \cup [is_dict : {TRUE}, type : {Some("text")}, content : {"Hello", "movie"}]
    \cup [is_dict : {TRUE}, type : {Some("action")},
          content : {"clear_session", "get_history", "restart"}]

\* what the services under the text handler do: answer, raise before the
\* message is stored (a content that is no string), raise after both
\* messages are stored (the action of the answer fails), or answer with the
\* fixed text of process_voice_query's except clause (generate_content raised)
TextOutcomes == {"ok", "bad_text", "action_raises", "gemini_fails"}

\* parse_message: the ValueError it raises, or the (msg_type, content) it returns
parse_message(message) ==
    IF ~message.is_dict THEN [exc |-> "ValueError", msg_type |-> "", content |-> ""]
    ELSE IF message.type = None \/ message.type = Some("")
    THEN [exc |-> "ValueError", msg_type |-> "", content |-> ""]
    ELSE IF Val(message.type) \notin MessageType
    THEN [exc |-> "ValueError", msg_type |-> "", content |-> ""]
    ELSE [exc |-> "none", msg_type |-> Val(message.type), content |-> message.content]

\* create_response: the type, and the action when one is given
create_response(msg_type, action) == [type |-> msg_type, action |-> action]

\* VoiceService._is_aquaculture_related
_is_aquaculture_related(text) == text # "movie"

\* response["text"] of GeminiClient.process_voice_query: the parsed answer, or
\* the text of its except clause
AssistantText(text, outcome) ==
    IF outcome = "gemini_fails" THEN "I'm sorry, I couldn't process that." ELSE "answer"

\* the session's list after VoiceService.process_text_input
ProcessTextSessions(sessions, session_id, text, outcome) ==
    IF outcome = "bad_text" THEN sessions
    ELSE IF ~_is_aquaculture_related(text)
    THEN add_message(add_message(sessions, session_id, DefaultMaxHistory,
                                 [role |-> "user", content |-> text]),
                     session_id, DefaultMaxHistory,
                     [role |-> "assistant", content |-> "off-topic"])
    ELSE add_message(add_message(sessions, session_id, DefaultMaxHistory,
                                 [role |-> "user", content |-> text]),
                     session_id, DefaultMaxHistory,
                     [role |-> "assistant", content |-> AssistantText(text, outcome)])

\* the messages process_text_input adds to the session
ProcessTextAdded(text, outcome) ==
    IF outcome = "bad_text" THEN <<>>
    ELSE IF ~_is_aquaculture_related(text)
    THEN <<[role |-> "user", content |-> text], [role |-> "assistant", content |-> "off-topic"]>>
    ELSE <<[role |-> "user", content |-> text],
           [role |-> "assistant", content |-> AssistantText(text, outcome)]>>

NoServiceCall == [called |-> FALSE, returned |-> FALSE, gemini_history |-> None]

\* variant: the user's text is stored only after Gemini has answered
process_text_input_queries_first(sessions, session_id, text, outcome) ==
    [called |-> TRUE,
     returned |-> /\ outcome # "bad_text"
                  /\ (~_is_aquaculture_related(text) \/ outcome # "action_raises"),
     gemini_history |->
         IF outcome = "bad_text" \/ ~_is_aquaculture_related(text) THEN None
         ELSE Some(get_history(sessions, session_id))]

\* VoiceService.process_text_input: whether it returns (or raises), and the
\* history it hands to process_voice_query, None when Gemini is not queried
process_text_input(sessions, session_id, text, outcome) ==
    [called |-> TRUE,
     returned |-> /\ outcome # "bad_text"
                  /\ (~_is_aquaculture_related(text) \/ outcome # "action_raises"),
     gemini_history |->
         IF outcome = "bad_text" \/ ~_is_aquaculture_related(text) THEN None
         ELSE Some(get_history(add_message(sessions, session_id, DefaultMaxHistory,
                                           [role |-> "user", content |-> text]),
                               session_id))]

\* what handle_message makes of the voice service: one process_text_input call
\* for a text message, none otherwise
HandleMessageService(sessions, session_id, message, outcome) ==
    IF parse_message(message).exc = "none" /\ parse_message(message).msg_type = "text"
    THEN process_text_input(sessions, session_id, message.content, outcome)
    ELSE NoServiceCall

\* VoiceAgentHandler._handle_text_message: the exception of the service is caught
_handle_text_message(text, outcome) ==
    IF outcome = "bad_text" THEN create_response("error", "")
    ELSE IF ~_is_aquaculture_related(text) THEN create_response("text", "")
    ELSE IF outcome = "action_raises" THEN create_response("error", "")
    ELSE create_response("text", "")

\* VoiceAgentHandler._handle_audio_message: process_audio_input returns a dict
_handle_audio_message == create_response("text", "")

\* VoiceAgentHandler._handle_action
_handle_action(action) ==
    IF action = "clear_session" THEN create_response("action", "session_cleared")
    ELSE IF action = "get_history" THEN create_response("action", "")
    ELSE create_response("error", "")

\* variant: no final else branch, an unrouted type falls off the chain
RouteMessage_no_else(msg_type, content, outcome) ==
    IF msg_type = "text" THEN <<_handle_text_message(content, outcome)>>
    ELSE IF msg_type = "audio" THEN <<_handle_audio_message>>
    ELSE IF msg_type = "action" THEN <<_handle_action(content)>>
    ELSE IF msg_type = "ping" THEN <<create_response("pong", "")>>
    ELSE <<>>

\* the if/elif chain of handle_message after a successful parse: what it returns
RouteMessage(msg_type, content, outcome) ==
    IF msg_type = "text" THEN <<_handle_text_message(content, outcome)>>
    ELSE IF msg_type = "audio" THEN <<_handle_audio_message>>
    ELSE IF msg_type = "action" THEN <<_handle_action(content)>>
    ELSE IF msg_type = "ping" THEN <<create_response("pong", "")>>
    ELSE <<create_response("error", "")>>

\* the `except Exception` of handle_message
HandlerCatches(exc) == exc \in {"ValueError", "KeyError", "AttributeError", "TypeError"}

\* VoiceAgentHandler.handle_message: the responses it returns and the
\* exception that leaves it
handle_message(message, outcome) ==
    IF parse_message(message).exc = "none"
    THEN [raised |-> "none",
          responses |-> RouteMessage(parse_message(message).msg_type,
                                     parse_message(message).content, outcome)]
    ELSE IF HandlerCatches(parse_message(message).exc)
    THEN [raised |-> "none", responses |-> <<create_response("error", "")>>]
    ELSE [raised |-> parse_message(message).exc, responses |-> <<>>]

\* the session's list after handle_message
HandleMessageSessions(sessions, session_id, message, outcome) ==
    IF parse_message(message).exc # "none" THEN sessions
    ELSE IF parse_message(message).msg_type = "text"
    THEN ProcessTextSessions(sessions, session_id, message.content, outcome)
    ELSE IF parse_message(message).msg_type = "action" /\ message.content = "clear_session"
    THEN clear(sessions, session_id)
    ELSE sessions

\* the messages added since the last clear, after handle_message
HandleMessageLog(log, message, outcome) ==
    IF parse_message(message).exc # "none" THEN log
    ELSE IF parse_message(message).msg_type = "text"
    THEN log \o ProcessTextAdded(message.content, outcome)
    ELSE IF parse_message(message).msg_type = "action" /\ message.content = "clear_session"
    THEN <<>>
    ELSE log

\* the timestamps after handle_message at time t: every add_message refreshes
\* the session's last activity
HandleMessageTimestamps(stamps, session_id, message, outcome, t) ==
    IF parse_message(message).exc = "none" /\ parse_message(message).msg_type = "text"
       /\ ProcessTextAdded(message.content, outcome) # <<>>
    THEN add_message_timestamps(stamps, session_id, t)
    ELSE stamps

(***************************************************************************)
(* api/v1/endpoints/voice_agent.py                                         *)
(***************************************************************************)
ConnectionIds == {"ws_1", "ws_2"}

NoConnection == [state |-> "new", session_id |-> ""]

NoWsEvent ==
    [event |-> "none", connection |-> "", message |-> None, raised |-> "none",
     sent |-> <<>>, service |-> NoServiceCall]

VoiceIdle ==
    /\ connections = [c \in ConnectionIds |-> NoConnection]
    /\ active_connections = [sid \in SessionIds |-> None]
    /\ ws_last = NoWsEvent

\* `del active_connections[session_id]` under `if session_id in active_connections`
DelConnection(active, session_id) == [active EXCEPT ![session_id] = None]

\* GET /sessions/{session_id}/status
get_session_status(active, session_id) ==
    [session_id |-> session_id, active |-> active[session_id] # None]

\* a client opens /ws/{session_id}: accept, register, build the handler (and
\* with it the session's SessionMemory), send the welcome message
Connect(c, session_id) ==
    /\ connections[c].state = "new"
    /\ connections' = [connections EXCEPT ![c] = [state |-> "open", session_id |-> session_id]]
    /\ active_connections' = [active_connections EXCEPT ![session_id] = Some(c)]
    /\ _sessions' = SessionMemory_init(_sessions, session_id)
    /\ _session_timestamps' = SessionMemory_init_timestamps(_sessions, _session_timestamps,
                                                             session_id, now)
    /\ ws_last' = [NoWsEvent EXCEPT !.event = "connect", !.connection = c,
                                    !.sent = <<create_response("connected", "")>>]
    /\ UNCHANGED <<now, memories, mem_log, mem_last>>

\* one round of the receive loop on connection c: the text is valid JSON, the
\* handler returns and its response is sent; a session holds at most one
\* exchange (two messages) more than MaxMessages
ReceiveMessage(c) ==
    /\ connections[c].state = "open"
    /\ \E message \in ClientMessages, outcome \in TextOutcomes :
        /\ outcome # "ok" => message.type = Some("text")
        /\ Len(HandleMessageLog(mem_log[connections[c].session_id], message, outcome))
             <= MaxMessages + 2
        /\ _sessions' = HandleMessageSessions(_sessions, connections[c].session_id,
                                              message, outcome)
        /\ mem_log' = [mem_log EXCEPT ![connections[c].session_id] =
                          HandleMessageLog(@, message, outcome)]
        /\ _session_timestamps' = HandleMessageTimestamps(_session_timestamps,
                                       connections[c].session_id, message, outcome, now)
        /\ ws_last' = [event |-> "handle_message", connection |-> c,
                       message |-> Some(message),
                       raised |-> handle_message(message, outcome).raised,
                       sent |-> handle_message(message, outcome).responses,
                       service |-> HandleMessageService(_sessions, connections[c].session_id,
                                                        message, outcome)]
    /\ UNCHANGED <<connections, active_connections, now, memories, mem_last>>

\* the client sends text that is not JSON: json.loads raises, the endpoint
\* sends its error message, drops the session's entry and returns
ReceiveInvalidJson(c) ==
    /\ connections[c].state = "open"
    /\ connections' = [connections EXCEPT ![c].state = "closed"]
    /\ active_connections' = DelConnection(active_connections, connections[c].session_id)
    /\ ws_last' = [NoWsEvent EXCEPT !.event = "invalid_json", !.connection = c,
                                    !.raised = "JSONDecodeError",
                                    !.sent = <<create_response("error", "")>>]
    /\ UNCHANGED memory_vars

\* the client closes connection c: receive_text raises WebSocketDisconnect
Disconnect(c) ==
    /\ connections[c].state = "open"
    /\ connections' = [connections EXCEPT ![c].state = "closed"]
    /\ active_connections' = DelConnection(active_connections, connections[c].session_id)
    /\ ws_last' = [NoWsEvent EXCEPT !.event = "disconnect", !.connection = c]
    /\ UNCHANGED memory_vars

(***************************************************************************)
(* _calculate_health_score on its own                                      *)
(***************************************************************************)
\* WaterQualityAnalysis.status is any string: the five of the penalty dict,
\* the "unknown" of GeminiClient's except clause, and two others
StatusInputs == {"excellent", "good", "fair", "poor", "critical", "unknown", "warning", ""}

\* DiseaseDetectionResponse.severity is any string
SeverityInputs == {"low", "medium", "high", "critical", "unknown", "severe"}

ScoreArguments ==
    [water_quality : {None} \cup {Some([status |-> st]) : st \in StatusInputs},
     disease_detection : {None} \cup {Some([severity |-> sv]) : sv \in SeverityInputs}]

ScoreIdle == score_call = [args |-> None, result |-> None]

ScoreInit == score_call \in [args : {Some(a) : a \in ScoreArguments}, result : {None}]

\* service._calculate_health_score(water_quality, disease_detection)
CalculateHealthScore ==
    /\ score_call.args # None
    /\ score_call.result = None
    /\ score_call' = [score_call EXCEPT !.result =
                         Some(_calculate_health_score(Val(score_call.args).water_quality,
                                                      Val(score_call.args).disease_detection))]

(***************************************************************************)
(* ml/disease_classifier.py                                                *)
(***************************************************************************)
\* the indices of the model's output vector
Classes == 0..6

\* DiseaseClassifier._get_default_label_map, by class index
DefaultLabelMap ==
    [i \in Classes |->
        Some(CASE i = 0 -> "Bacterial Red disease"
               [] i = 1 -> "Bacterial diseases - Aeromoniasis"
               [] i = 2 -> "Bacterial gill disease"
               [] i = 3 -> "Fungal diseases Saprolegniasis"
               [] i = 4 -> "Healthy Fish"
               [] i = 5 -> "Parasitic diseases"
               [] i = 6 -> "Viral diseases White tail disease")]

\* self.label_map: the default, or a label_map.json that has no entry for class 3
LabelMaps == {DefaultLabelMap, [DefaultLabelMap EXCEPT ![3] = None]}

\* probabilities the model puts on a class, in thousandths
ProbValues == {0, 100, 200, 300, 600, 700}

\* predictions[0]: a probability for each class, summing to 1
ProbabilityVectors ==
    {p \in [Classes -> ProbValues] : p[0] + p[1] + p[2] + p[3] + p[4] + p[5] + p[6] = 1000}

\* np.argsort leaves the order of equal elements open: by falling or by rising index
TieOrders == {"index_falling", "index_rising"}

\* class i comes before class j in np.argsort(predictions)[::-1]
ComesBefore(p, tie, i, j) ==
    \/ p[i] > p[j]
    \/ p[i] = p[j] /\ (IF tie = "index_falling" THEN i > j ELSE i < j)

\* sorted_indices
sorted_indices(p, tie) ==
    [k \in 1..Cardinality(DOMAIN p) |->
        CHOOSE i \in DOMAIN p : Cardinality({j \in DOMAIN p : ComesBefore(p, tie, j, i)}) = k - 1]

\* variant: 'Healthy Fish' is treated like any other label
Skips_healthy_as_any(p, label_map, idx) ==
    \/ p[idx] < 200
    \/ label_map[idx] = None

\* the three `continue` of the loop: below confidence_threshold, no label,
\* 'Healthy Fish' below 0.7
Skips(p, label_map, idx) ==
    \/ p[idx] < 200
    \/ label_map[idx] = None
    \/ label_map[idx] = Some("Healthy Fish") /\ p[idx] < 700

\* the loop over sorted_indices from position k on: append, break at 3 results
RECURSIVE FilterLoop(_, _, _, _, _)
FilterLoop(p, label_map, order, k, results) ==
    IF k > Len(order) THEN results
    ELSE IF Skips(p, label_map, order[k]) THEN FilterLoop(p, label_map, order, k + 1, results)
    ELSE IF Len(results) + 1 >= 3
    THEN Append(results, [idx |-> order[k], label |-> Val(label_map[order[k]]),
                          confidence |-> p[order[k]]])
    ELSE FilterLoop(p, label_map, order, k + 1,
                    Append(results, [idx |-> order[k], label |-> Val(label_map[order[k]]),
                                     confidence |-> p[order[k]]]))

\* DiseaseClassifier._predictions_to_disease_info
_predictions_to_disease_info(p, label_map, tie) ==
    FilterLoop(p, label_map, sorted_indices(p, tie), 1, <<>>)

\* what the steps of predict's try block do: all succeed, or one raises
\* (b64decode, Image.open, preprocess_image, model.predict)
PredictSteps == {"ok", "b64decode_raises", "open_raises", "preprocess_raises",
                 "model_predict_raises"}

\* DiseaseClassifier.predict: [] without a model, [] from `except Exception`
DiseaseClassifier_predict(model_loaded, step, p, label_map, tie) ==
    IF ~model_loaded THEN [raised |-> "none", ret |-> <<>>]
    ELSE IF step # "ok" THEN [raised |-> "none", ret |-> <<>>]
    ELSE [raised |-> "none", ret |-> _predictions_to_disease_info(p, label_map, tie)]

\* the calls under study: every vector with a model and no failure, one vector
\* for the calls that end before the vector is looked at
ClassifierArguments ==
    [model_loaded : {TRUE}, step : {"ok"}, predictions : ProbabilityVectors,
     label_map : LabelMaps, tie : TieOrders]
    \cup [model_loaded : BOOLEAN, step : PredictSteps,
          predictions : {[i \in Classes |-> IF i = 0 THEN 700 ELSE IF i = 1 THEN 300 ELSE 0]},
          label_map : {DefaultLabelMap}, tie : {"index_falling"}]

ClassifierIdle == disease_call = [args |-> None, result |-> None]

ClassifierInit == disease_call \in [args : {Some(a) : a \in ClassifierArguments}, result : {None}]

\* await classifier.predict(image_base64)
ClassifierPredict ==
    /\ disease_call.args # None
    /\ disease_call.result = None
    /\ disease_call' = [disease_call EXCEPT !.result =
           Some(DiseaseClassifier_predict(Val(disease_call.args).model_loaded,
                                          Val(disease_call.args).step,
                                          Val(disease_call.args).predictions,
                                          Val(disease_call.args).label_map,
                                          Val(disease_call.args).tie))]

Init ==
    /\ PredictorInit
    /\ ShopIdle
    /\ MemoryIdle
    /\ VoiceIdle
    /\ ScoreIdle
    /\ ClassifierIdle
    /\ db_readings = [t \in TankIds |-> <<>>]
    /\ last_request = NoRequest

Next ==
    \/ \E outcome \in LoadOutcomes : WaterQualityPredictor_init(outcome) /\ UNCHANGED <<service_vars, shop_vars, memory_vars, voice_vars, score_vars, classifier_vars>>
    \/ \E r \in {wq_reading} \cup OtherReadings : Predict(r) /\ UNCHANGED <<service_vars, shop_vars, memory_vars, voice_vars, score_vars, classifier_vars>>
    \/ PrepareFeatures /\ UNCHANGED <<service_vars, shop_vars, memory_vars, voice_vars, score_vars, classifier_vars>>

Spec == Init /\ [][Next]_vars

\* the service's requests against a database seeded or empty
InitAnalysis ==
    /\ PredictorInit
    /\ wq_reading = AllAbsent
    /\ db_readings \in [TankIds -> {<<>>, <<SeedRow>>}]
    /\ TotalRows(db_readings, TankIds) <= MaxReadings
    /\ last_request = NoRequest
    /\ ShopIdle
    /\ MemoryIdle
    /\ VoiceIdle
    /\ ScoreIdle
    /\ ClassifierIdle

NextAnalysis ==
    \/ AnalyzeTank /\ UNCHANGED <<predictor_vars, shop_vars, memory_vars, voice_vars, score_vars, classifier_vars>>
    \/ AddWaterQualityReading /\ UNCHANGED <<predictor_vars, shop_vars, memory_vars, voice_vars, score_vars, classifier_vars>>
    \/ GetTank /\ UNCHANGED <<predictor_vars, shop_vars, memory_vars, voice_vars, score_vars, classifier_vars>>
    \/ GetWaterQualityReadings /\ UNCHANGED <<predictor_vars, shop_vars, memory_vars, voice_vars, score_vars, classifier_vars>>
    \/ GetLatestWaterQuality /\ UNCHANGED <<predictor_vars, shop_vars, memory_vars, voice_vars, score_vars, classifier_vars>>
    \/ ReturnResponse /\ UNCHANGED <<predictor_vars, shop_vars, memory_vars, voice_vars, score_vars, classifier_vars>>

SpecAnalysis == InitAnalysis /\ [][NextAnalysis]_vars

\* the marketplace's order requests against a stocked products table
PredictorIdle ==
    /\ PredictorInit
    /\ wq_reading = AllAbsent

ServiceIdle ==
    /\ db_readings = [t \in TankIds |-> <<>>]
    /\ last_request = NoRequest

InitShop ==
    /\ PredictorIdle
    /\ ServiceIdle
    /\ ShopInit
    /\ MemoryIdle
    /\ VoiceIdle
    /\ ScoreIdle
    /\ ClassifierIdle

NextShop ==
    \/ CreateOrder /\ UNCHANGED <<predictor_vars, service_vars, memory_vars, voice_vars, score_vars, classifier_vars>>
    \/ UpdateOrder /\ UNCHANGED <<predictor_vars, service_vars, memory_vars, voice_vars, score_vars, classifier_vars>>
    \/ CancelOrder /\ UNCHANGED <<predictor_vars, service_vars, memory_vars, voice_vars, score_vars, classifier_vars>>

SpecShop == InitShop /\ [][NextShop]_vars

\* calls on SessionMemory objects that share the class-level storage
InitMemory ==
    /\ PredictorIdle
    /\ ServiceIdle
    /\ ShopIdle
    /\ MemoryInit
    /\ VoiceIdle
    /\ ScoreIdle
    /\ ClassifierIdle

NextMemory ==
    \/ \E m \in MemoryIds : AddMessage(m) /\ UNCHANGED <<predictor_vars, service_vars, shop_vars, voice_vars, score_vars, classifier_vars>>
    \/ \E m \in MemoryIds : GetHistory(m) /\ UNCHANGED <<predictor_vars, service_vars, shop_vars, voice_vars, score_vars, classifier_vars>>
    \/ \E m \in MemoryIds : Clear(m) /\ UNCHANGED <<predictor_vars, service_vars, shop_vars, voice_vars, score_vars, classifier_vars>>

SpecMemory == InitMemory /\ [][NextMemory]_vars

\* the session store with its whole lifecycle: handlers built at any time, the
\* clock advancing and the sweep
InitStore ==
    /\ PredictorIdle
    /\ ServiceIdle
    /\ ShopIdle
    /\ MemoryInit
    /\ VoiceIdle
    /\ ScoreIdle
    /\ ClassifierIdle

NextStore ==
    \/ \E m \in MemoryIds :
          Construct(m) /\ UNCHANGED <<predictor_vars, service_vars, shop_vars, voice_vars, score_vars, classifier_vars>>
    \/ \E m \in MemoryIds :
          AddMessageFrom(m, StoreMessages)
              /\ UNCHANGED <<predictor_vars, service_vars, shop_vars, voice_vars, score_vars, classifier_vars>>
    \/ \E m \in MemoryIds :
          GetHistory(m) /\ UNCHANGED <<predictor_vars, service_vars, shop_vars, voice_vars, score_vars, classifier_vars>>
    \/ \E m \in MemoryIds :
          Clear(m) /\ UNCHANGED <<predictor_vars, service_vars, shop_vars, voice_vars, score_vars, classifier_vars>>
    \/ CleanupExpiredSessions /\ UNCHANGED <<predictor_vars, service_vars, shop_vars, voice_vars, score_vars, classifier_vars>>
    \/ Tick /\ UNCHANGED <<predictor_vars, service_vars, shop_vars, voice_vars, score_vars, classifier_vars>>

SpecStore == InitStore /\ [][NextStore]_vars

\* WebSocket connections of the voice agent and the messages they carry
InitVoice ==
    /\ PredictorIdle
    /\ ServiceIdle
    /\ ShopIdle
    /\ MemoryIdle
    /\ VoiceIdle
    /\ ScoreIdle
    /\ ClassifierIdle

NextVoice ==
    \/ \E c \in ConnectionIds, sid \in SessionIds :
          Connect(c, sid) /\ UNCHANGED <<predictor_vars, service_vars, shop_vars, score_vars, classifier_vars>>
    \/ \E c \in ConnectionIds :
          ReceiveMessage(c) /\ UNCHANGED <<predictor_vars, service_vars, shop_vars, score_vars, classifier_vars>>
    \/ \E c \in ConnectionIds :
          ReceiveInvalidJson(c) /\ UNCHANGED <<predictor_vars, service_vars, shop_vars, score_vars, classifier_vars>>
    \/ \E c \in ConnectionIds :
          Disconnect(c) /\ UNCHANGED <<predictor_vars, service_vars, shop_vars, score_vars, classifier_vars>>

SpecVoice == InitVoice /\ [][NextVoice]_vars

\* _calculate_health_score applied to every pair of arguments
InitScore ==
    /\ PredictorIdle
    /\ ServiceIdle
    /\ ShopIdle
    /\ MemoryIdle
    /\ VoiceIdle
    /\ ScoreInit
    /\ ClassifierIdle

NextScore ==
    CalculateHealthScore
      /\ UNCHANGED <<predictor_vars, service_vars, shop_vars, memory_vars, voice_vars,
                     classifier_vars>>

SpecScore == InitScore /\ [][NextScore]_vars

InitDisease ==
    /\ PredictorIdle
    /\ ServiceIdle
    /\ ShopIdle
    /\ MemoryIdle
    /\ VoiceIdle
    /\ ScoreIdle
    /\ ClassifierInit

NextDisease ==
    ClassifierPredict
      /\ UNCHANGED <<predictor_vars, service_vars, shop_vars, memory_vars, voice_vars,
                     score_vars>>

SpecDisease == InitDisease /\ [][NextDisease]_vars

(***************************************************************************)
(* Properties of _prepare_features                                         *)
(***************************************************************************)
IsPrepareCall == last_call.op = "_prepare_features"

CallReading == Val(last_call.reading)

CallFeatures == Val(last_call.ret).features

CallMissing == Val(last_call.ret).missing

\* C1: for every reading, whatever subset of its six fields is present,
\* _prepare_features returns a vector of exactly 14 slots and no slot is None.
C1_VectorComplete ==
    IsPrepareCall =>
        /\ Len(CallFeatures) = 14
        /\ \A i \in 1..Len(CallFeatures) : CallFeatures[i] # None

C1_Witness == IsPrepareCall /\ CallReading = AllAbsent /\ Len(CallFeatures) = 14

\* position (from 1) of each trackable field in the vector, and its reading default
TrackableSlots ==
    << [field |-> "temperature", slot |-> 1, dflt |-> 26000],
       [field |-> "turbidity", slot |-> 2, dflt |-> 5000],
       [field |-> "dissolved_oxygen", slot |-> 3, dflt |-> 7000],
       [field |-> "ph", slot |-> 6, dflt |-> 7500],
       [field |-> "ammonia", slot |-> 10, dflt |-> 10],
       [field |-> "nitrite", slot |-> 11, dflt |-> 10] >>

\* position (from 1) of each untracked dimension, and its static default
UntrackedSlots ==
    << [slot |-> 4, dflt |-> 3000], [slot |-> 5, dflt |-> 5000],
       [slot |-> 7, dflt |-> 100000], [slot |-> 8, dflt |-> 150000],
       [slot |-> 9, dflt |-> 60000], [slot |-> 12, dflt |-> 50],
       [slot |-> 13, dflt |-> 1], [slot |-> 14, dflt |-> 5000000] >>

\* C2: slot i holds dimension i of the fixed order: a present trackable field
\* verbatim at index 0, 1, 2, 5, 9, 10; an absent one replaced by its reading
\* default; every untracked slot its static default whatever the input.
C2_FixedOrderAndDefaults ==
    IsPrepareCall =>
        /\ \A k \in 1..Len(TrackableSlots) :
            LET t == TrackableSlots[k]
                given == CallReading[t.field]
            IN  CallFeatures[t.slot] = IF given # None THEN given ELSE Some(t.dflt)
        /\ \A k \in 1..Len(UntrackedSlots) :
            CallFeatures[UntrackedSlots[k].slot] = Some(UntrackedSlots[k].dflt)

C2_Witness ==
    /\ IsPrepareCall
    /\ CallReading.ph = Some(0)
    /\ CallReading.turbidity = None
    /\ CallFeatures[6] = Some(0)
    /\ CallFeatures[2] = Some(5000)

\* the names the report uses, in feature order
ReportNames ==
    <<"temperature", "turbidity", "dissolved_oxygen", "BOD", "CO2", "ph", "Alkalinity",
      "Hardness", "Calcium", "ammonia", "nitrite", "Phosphorus", "H2S", "Plankton">>

IsTrackableName(n) == \E k \in 1..Len(TrackableFields) : TrackableFields[k] = n

NumPresent(r) == Cardinality({k \in 1..Len(TrackableFields) : r[TrackableFields[k]] # None})

\* C3: the missing report is exactly the 8 untracked names plus every absent
\* trackable field, each once and in feature order; a present field is never
\* reported; so it has 8 entries for a complete reading, 12 when only
\* temperature and pH are present, 14 when all are absent.
C3_MissingReportExact ==
    IsPrepareCall =>
        /\ CallMissing = SelectSeq(ReportNames,
               LAMBDA n : ~IsTrackableName(n) \/ CallReading[n] = None)
        /\ Len(CallMissing) = 14 - NumPresent(CallReading)
        /\ (NumPresent(CallReading) = 6 => Len(CallMissing) = 8)
        /\ (NumPresent(CallReading) = 0 => Len(CallMissing) = 14)
        /\ ({k \in 1..6 : CallReading[TrackableFields[k]] # None} = {1, 4}
              => Len(CallMissing) = 12)

C3_Witness ==
    /\ IsPrepareCall
    /\ CallReading.temperature = Some(0)
    /\ CallReading.ph # None
    /\ NumPresent(CallReading) = 2
    /\ Len(CallMissing) = 12

(***************************************************************************)
(* Properties of the predictor's life cycle and of predict                 *)
(***************************************************************************)
IsPredictCall == last_call.op = "predict"

\* C4: the load state changes only at construction: _load_model has run
\* exactly once on a constructed instance and __init__ did not raise whether or
\* not the load failed; afterwards no call changes self.model or loads again,
\* so an Unloaded instance stays Unloaded and a Ready one stays Ready.
C4_LoadOnlyAtConstruction ==
    /\ [](phase = "constructed" => load_count = 1 /\ ctor_raised = "none")
    /\ [][phase = "constructed" => model' = model /\ load_count' = load_count]_vars

C4_Witness ==
    /\ phase = "constructed"
    /\ model = None
    /\ load_count = 1
    /\ IsPredictCall
    /\ Len(probe_results) = MaxProbeCalls

\* C5: predict on an Unloaded predictor returns None for any reading, without
\* raising, without assembling features and without calling the model.
C5_UnloadedReturnsUnavailable ==
    (IsPredictCall /\ model = None) =>
        /\ last_call.ret = None
        /\ last_call.propagated = "none"
        /\ last_call.caught = "none"
        /\ ~last_call.prepared
        /\ last_call.model_calls = 0

C5_Witness ==
    /\ IsPredictCall
    /\ model = None
    /\ last_call.reading = Some(CompleteReading)
    /\ last_call.ret = None

\* C6: predict never lets an exception reach its caller: whatever fails inside
\* (reading attributes, feature assembly, either model call, the label lookup
\* for a class outside 0..2, indexing) it returns None, and the predictor stays
\* Ready for later calls.
C6_NeverPropagates ==
    /\ [](IsPredictCall =>
            /\ last_call.propagated = "none"
            /\ (last_call.caught # "none" => last_call.ret = None))
    /\ [][model # None => model' = model]_vars

C6_Witness ==
    /\ IsPredictCall
    /\ model # None
    /\ last_call.caught = "KeyError"
    /\ last_call.ret = None

Max3(a, b, c) == IF a >= b /\ a >= c THEN a ELSE IF b >= c THEN b ELSE c

DocumentedLabels == <<"Excellent", "Good", "Poor">>

\* C8: the label map is the constant 0 -> Excellent, 1 -> Good, 2 -> Poor
\* whatever artifact was loaded; a returned result's prediction is the label of
\* its prediction_class under that map and its three probabilities are the
\* model's probabilities at indices 0, 1, 2.
C8_HardcodedLabelMap ==
    /\ phase = "constructed" =>
        /\ DOMAIN quality_labels = {0, 1, 2}
        /\ \A c \in {0, 1, 2} : quality_labels[c] = DocumentedLabels[c + 1]
    /\ (IsPredictCall /\ last_call.ret # None) =>
        LET res == Val(last_call.ret)
            raw == Val(last_call.proba)
        IN  /\ res.prediction_class \in {0, 1, 2}
            /\ res.prediction = DocumentedLabels[res.prediction_class + 1]
            /\ res.probabilities.Excellent = raw[1]
            /\ res.probabilities.Good = raw[2]
            /\ res.probabilities.Poor = raw[3]

C8_Witness ==
    /\ IsPredictCall
    /\ last_call.ret # None
    /\ model # None
    /\ Len(Val(model).classes_) = 4
    /\ Val(last_call.ret).prediction_class = 2
    /\ Val(last_call.ret).prediction = "Poor"

IsAnalyzeRequest == last_request.op = "analyze_tank"

\* C9: when the predictor returns None for the tank's latest reading (model not
\* loaded or inference error), _analyze_water_quality takes the Gemini-only
\* path with the raw reading and analyze_tank returns a response whose
\* water_quality_analysis is not null; the request is not aborted.
C9_FallbackOnUnavailable ==
    (IsAnalyzeRequest /\ last_request.predictor_called /\ last_request.ml_prediction = None) =>
        /\ last_request.outcome = "response"
        /\ last_request.exc = "none"
        /\ last_request.advisory = "gemini_only"
        /\ last_request.advisory_reading = last_request.ml_reading
        /\ last_request.ml_reading = get_latest_water_quality(db_readings, last_request.tank_id)
        /\ Val(last_request.response).water_quality_analysis # None

C9_Witness ==
    /\ IsAnalyzeRequest
    /\ last_request.predictor_called
    /\ last_request.ml_prediction = None
    /\ last_request.outcome = "response"
    /\ Val(last_request.ml_reading).turbidity = None
    /\ Val(Val(last_request.response).water_quality_analysis).status = "critical"
    /\ Len(Val(last_request.response).alerts) = 1

(***************************************************************************)
(* Frame of the predictor's calls; absence against zero                    *)
(***************************************************************************)
\* C11: a call of _prepare_features or predict on the constructed predictor
\* leaves the reading's six fields, self.model, self.model_path and
\* self.quality_labels as they were before the call.
C11_CallsLeaveStateUnchanged ==
    [][phase = "constructed" =>
          /\ wq_reading' = wq_reading
          /\ model' = model
          /\ model_path' = model_path
          /\ quality_labels' = quality_labels]_vars

C11_Witness ==
    /\ last_call.op = "predict"
    /\ last_call.reading = Some(wq_reading)
    /\ last_call.ret # None
    /\ wq_reading.temperature = None
    /\ wq_reading.ph = Some(0)
    /\ Len(probe_results) = 2

InSeq(x, seq) == \E i \in 1..Len(seq) : seq[i] = x

\* C12: a trackable field measured as 0.0 is present: it is in its slot
\* verbatim, not replaced by the default, and not named in the missing report;
\* a field is defaulted and reported exactly when it is None.
C12_ZeroIsPresent ==
    IsPrepareCall =>
        \A k \in 1..Len(TrackableSlots) :
            /\ CallReading[TrackableSlots[k].field] = Some(0) =>
                  /\ CallFeatures[TrackableSlots[k].slot] = Some(0)
                  /\ CallFeatures[TrackableSlots[k].slot] # Some(TrackableSlots[k].dflt)
                  /\ ~InSeq(TrackableSlots[k].field, CallMissing)
            /\ CallReading[TrackableSlots[k].field] = None =>
                  /\ CallFeatures[TrackableSlots[k].slot] = Some(TrackableSlots[k].dflt)
                  /\ InSeq(TrackableSlots[k].field, CallMissing)
            /\ InSeq(TrackableSlots[k].field, CallMissing) =>
                  CallReading[TrackableSlots[k].field] = None

C12_Witness ==
    /\ IsPrepareCall
    /\ CallReading.ammonia = Some(0)
    /\ CallReading.nitrite = None
    /\ CallFeatures[10] = Some(0)
    /\ CallFeatures[11] = Some(10)
    /\ ~InSeq("ammonia", CallMissing)

(***************************************************************************)
(* Orders                                                                  *)
(***************************************************************************)
\* an item of the body names no product or asks for more than is in stock
ItemFails(prods, item) ==
    item.product_id \notin DOMAIN prods \/ item.quantity > prods[item.product_id]

\* C13: when any item of the body names a product that does not exist or asks
\* for more than the product's current stock, create_order raises ValueError
\* (HTTP 400, "not found" or "Insufficient stock"), no order is created and no
\* product's stock_quantity changes.
C13_FailedCreateChangesNothing ==
    [][(/\ shop_last'.op = "create_order"
        /\ \E i \in 1..Len(shop_last'.items) : ItemFails(products, shop_last'.items[i]))
       => /\ shop_last'.http = 400
          /\ shop_last'.detail \in {"not found", "Insufficient stock"}
          /\ shop_last'.created = ""
          /\ orders' = orders
          /\ products' = products]_vars

C13_Witness ==
    /\ shop_last.op = "create_order"
    /\ shop_last.http = 400
    /\ Len(shop_last.items) = 2
    /\ ~ItemFails(products, shop_last.items[1])
    /\ shop_last.items[2].product_id \in ProductIds
    /\ shop_last.items[2].quantity > products[shop_last.items[2].product_id]
    /\ \A o \in OrderIds : orders[o] = None

\* the order a cancel request names, as its user sees it before the request
CancelTarget == get_order_by_id(orders, shop_last'.user_id, shop_last'.order_id)

\* C14: cancel_order on an order whose status is neither pending nor
\* confirmed raises ValueError (HTTP 400, "Cannot cancel") and leaves the
\* order's status and every product's stock as they were.
C14_OnlyPendingOrConfirmedCancellable ==
    [][(/\ shop_last'.op = "cancel_order"
        /\ CancelTarget # None
        /\ Val(CancelTarget).status \notin {"pending", "confirmed"})
       => /\ shop_last'.http = 400
          /\ shop_last'.detail = "Cannot cancel"
          /\ orders' = orders
          /\ products' = products]_vars

\* total quantity the items from i on ask of product p
RECURSIVE QuantityOf(_, _, _)
QuantityOf(items, p, i) ==
    IF i > Len(items) THEN 0
    ELSE (IF items[i].product_id = p THEN items[i].quantity ELSE 0) + QuantityOf(items, p, i + 1)

\* C15: cancelling a pending or confirmed order sets its status to cancelled
\* and adds each item's quantity back to its product's stock; and cancelling
\* an order right after create_order created it gives every product the
\* stock_quantity it had before the order was created.
C15_CancelRestoresStock ==
    [][/\ (/\ shop_last'.op = "cancel_order"
           /\ CancelTarget # None
           /\ Val(CancelTarget).status \in {"pending", "confirmed"})
          => /\ shop_last'.http = 200
             /\ Val(orders'[shop_last'.order_id]).status = "cancelled"
             /\ \A p \in ProductIds :
                   products'[p] = products[p] + QuantityOf(Val(CancelTarget).items, p, 1)
       /\ (shop_last'.op = "create_order" /\ shop_last'.created # "")
          => /\ cancel_order(products', orders', shop_last'.user_id,
                             shop_last'.created).products = products
             /\ Val(cancel_order(products', orders', shop_last'.user_id,
                                 shop_last'.created).orders[shop_last'.created]).status
                   = "cancelled"]_vars

C15_Witness ==
    /\ shop_last.op = "cancel_order"
    /\ shop_last.http = 200
    /\ Val(orders[shop_last.order_id]).status = "cancelled"
    /\ Len(Val(orders[shop_last.order_id]).items) = 2
    /\ Val(orders[shop_last.order_id]).items[1].product_id
         = Val(orders[shop_last.order_id]).items[2].product_id
    /\ \A p \in ProductIds : products[p] = MaxStock

(***************************************************************************)
(* Session history                                                         *)
(***************************************************************************)
\* the session of the object the latest call was made on
CallSession == memories[mem_last.memory].session_id

\* every object attached to session sid keeps at least n messages
AllKeepAtLeast(sid, n) ==
    \A m \in MemoryIds : memories[m].session_id = sid => n <= memories[m].max_history

\* C19: after messages m1..mn were added to a session since it was created or
\* last cleared, n not above max_history, get_history returns exactly m1..mn in
\* insertion order with their roles and contents; after clear it returns the
\* empty list until the next add_message.
C19_HistoryInOrderAndCleared ==
    /\ (mem_last.op = "get_history" /\ AllKeepAtLeast(CallSession, Len(mem_log[CallSession])))
          => mem_last.ret = mem_log[CallSession]
    /\ mem_last.op = "clear" => get_history(_sessions, CallSession) = <<>>
    /\ (mem_last.op = "get_history" /\ mem_log[CallSession] = <<>>) => mem_last.ret = <<>>

C19_Witness ==
    /\ mem_last.op = "get_history"
    /\ memories[mem_last.memory].max_history = 2
    /\ Len(mem_last.ret) = 2
    /\ mem_last.ret[1].role = "user"
    /\ mem_last.ret[2].role = "assistant"
    /\ mem_last.ret[1].content # mem_last.ret[2].content
    /\ AllKeepAtLeast(CallSession, 2)

\* C20: the history get_history returns to an object never has more messages
\* than that object's max_history, and it is the most recently added messages
\* of the session, in the order they were added.
C20_HistoryWithinMaxHistory ==
    mem_last.op = "get_history" =>
        /\ Len(mem_last.ret) <= memories[mem_last.memory].max_history
        /\ Len(mem_last.ret) <= Len(mem_log[CallSession])
        /\ mem_last.ret = SubSeq(mem_log[CallSession],
                                 Len(mem_log[CallSession]) - Len(mem_last.ret) + 1,
                                 Len(mem_log[CallSession]))

(***************************************************************************)
(* Voice agent: messages and sessions                                      *)
(***************************************************************************)
IsHandledMessage == ws_last.event = "handle_message"

HandledMessage == Val(ws_last.message)

\* the message has no usable type: it is no dict, or its type is missing or empty
TypeMissing(message) == ~message.is_dict \/ message.type = None \/ message.type = Some("")

\* C16: handle_message returns exactly one response for every incoming message
\* and raises nothing; a ping is answered by a pong; a message whose type is
\* missing, is no MessageType value, or is one of error, pong, connected,
\* disconnected is answered by a response of type error.
C16_OneResponsePerMessage ==
    IsHandledMessage =>
        /\ ws_last.raised = "none"
        /\ Len(ws_last.sent) = 1
        /\ (HandledMessage.is_dict /\ HandledMessage.type = Some("ping"))
              => ws_last.sent[1].type = "pong"
        /\ TypeMissing(HandledMessage) => ws_last.sent[1].type = "error"
        /\ (~TypeMissing(HandledMessage)
              /\ Val(HandledMessage.type) \notin {"text", "audio", "action", "ping"})
              => ws_last.sent[1].type = "error"

C16_Witness ==
    /\ IsHandledMessage
    /\ HandledMessage.type = Some("disconnected")
    /\ Len(ws_last.sent) = 1
    /\ ws_last.sent[1].type = "error"

\* C17: the status endpoint reports a session active exactly while at least
\* one WebSocket connection for that session id is open, whatever the order
\* of connects and disconnects, overlapping connections on one id included.
C17_ActiveWhileConnected ==
    \A sid \in SessionIds :
        get_session_status(active_connections, sid).active
          <=> \E c \in ConnectionIds :
                connections[c].state = "open" /\ connections[c].session_id = sid

(***************************************************************************)
(* Health score                                                            *)
(***************************************************************************)
\* the penalty the statement gives a water-quality status
StatedStatusPenalty(wq) ==
    IF wq = None THEN 0
    ELSE IF Val(wq).status = "excellent" THEN 0
    ELSE IF Val(wq).status = "good" THEN 5
    ELSE IF Val(wq).status = "fair" THEN 15
    ELSE IF Val(wq).status = "poor" THEN 30
    ELSE IF Val(wq).status = "critical" THEN 50
    ELSE 20

\* the penalty the statement gives a disease severity
StatedSeverityPenalty(dd) ==
    IF dd = None THEN 0
    ELSE IF Val(dd).severity = "low" THEN 5
    ELSE IF Val(dd).severity = "medium" THEN 15
    ELSE IF Val(dd).severity = "high" THEN 30
    ELSE IF Val(dd).severity = "critical" THEN 50
    ELSE 10

\* 100 minus the two stated penalties, before clamping
StatedRawScore ==
    100 - StatedStatusPenalty(Val(score_call.args).water_quality)
        - StatedSeverityPenalty(Val(score_call.args).disease_detection)

C21_PredictionReachesAdvisory ==
    (IsAnalyzeRequest /\ last_request.predictor_called /\ last_request.ml_prediction # None) =>
        /\ last_request.outcome = "response"
        /\ last_request.exc = "none"
        /\ last_request.advisory = "with_ml"
        /\ Val(last_request.response).water_quality_analysis # None

\* the newest row of a tank, None when the tank has no row
NewestRow(tank_id) ==
    IF tank_id \in TankIds /\ Len(db_readings[tank_id]) > 0
    THEN Some(db_readings[tank_id][Len(db_readings[tank_id])])
    ELSE None

\* C22: analyze_tank calls the predictor only when the tank exists,
\* include_water_quality is true and the tank has a reading, and then on the
\* newest reading; an unknown tank gives None (404) with no predictor or advisory
\* call; a tank without readings gives no predictor call, the alert 'No water
\* quality data available. Please add readings.' and a response whose
\* water_quality_analysis is null.
C22_PredictorOnlyOnLatestReading ==
    IsAnalyzeRequest =>
        /\ last_request.predictor_called =>
              /\ get_tank_by_id(DefaultUser, last_request.tank_id) # None
              /\ last_request.include_water_quality
              /\ NewestRow(last_request.tank_id) # None
              /\ last_request.ml_reading = NewestRow(last_request.tank_id)
        /\ get_tank_by_id(DefaultUser, last_request.tank_id) = None =>
              /\ last_request.outcome = "not_found"
              /\ last_request.response = None
              /\ ~last_request.predictor_called
              /\ last_request.advisory = "none"
        /\ (/\ get_tank_by_id(DefaultUser, last_request.tank_id) # None
            /\ last_request.include_water_quality
            /\ NewestRow(last_request.tank_id) = None) =>
              /\ ~last_request.predictor_called
              /\ last_request.outcome = "response"
              /\ InSeq("No water quality data available. Please add readings.",
                       Val(last_request.response).alerts)
              /\ Val(last_request.response).water_quality_analysis = None

\* a request for a tank with two different readings ran the predictor on the
\* newer one
C22_Witness ==
    /\ IsAnalyzeRequest
    /\ last_request.predictor_called
    /\ Len(db_readings[last_request.tank_id]) >= 2
    /\ db_readings[last_request.tank_id][1] # Val(NewestRow(last_request.tank_id))
    /\ last_request.ml_reading = NewestRow(last_request.tank_id)

(***************************************************************************)
(* VoiceService.process_text_input and the session history                 *)
(***************************************************************************)
\* the session of the connection the latest event belongs to
EventSession == connections[ws_last.connection].session_id

\* the list with at most its last n entries, as add_message trims it
TrimTo(seq, n) == IF Len(seq) > n THEN SliceLast(seq, n) ELSE seq

\* C23: every process_text_input call that returns appends exactly two messages
\* to the session history, the user's text and then the assistant's reply, on
\* the off-topic path (Gemini is not queried) and on the normal path (the
\* fallback text included); the history handed to Gemini already ends with the
\* user's message.
C23_TextInputAppendsUserThenAssistant ==
    [][(ws_last'.event = "handle_message" /\ ws_last'.service.called
           /\ ws_last'.service.returned) =>
          LET sid == connections[ws_last'.connection].session_id
              text == Val(ws_last'.message).content
              old == get_history(_sessions, sid)
              new == get_history(_sessions', sid)
          IN  /\ Len(new) >= 2
              /\ new = TrimTo(old \o SubSeq(new, Len(new) - 1, Len(new)), DefaultMaxHistory)
              /\ new[Len(new) - 1] = [role |-> "user", content |-> text]
              /\ new[Len(new)].role = "assistant"
              /\ ~_is_aquaculture_related(text) =>
                    /\ ws_last'.service.gemini_history = None
                    /\ new[Len(new)].content = "off-topic"
              /\ _is_aquaculture_related(text) =>
                    /\ ws_last'.service.gemini_history
                         = Some(TrimTo(Append(old, [role |-> "user", content |-> text]),
                                       DefaultMaxHistory))
                    /\ new[Len(new)].content \in {"answer", "I'm sorry, I couldn't process that."}]_vars

\* a second exchange on a session: Gemini failed, the fallback text was stored
\* after the user's text, behind the two messages of the first exchange
C23_Witness ==
    /\ IsHandledMessage
    /\ ws_last.service.returned
    /\ ws_last.service.gemini_history # None
    /\ Len(get_history(_sessions, EventSession)) = 4
    /\ get_history(_sessions, EventSession)[2].content = "off-topic"
    /\ get_history(_sessions, EventSession)[3] = [role |-> "user", content |-> "Hello"]
    /\ get_history(_sessions, EventSession)[4].content = "I'm sorry, I couldn't process that."

(***************************************************************************)
(* Stock: sign and conservation                                            *)
(***************************************************************************)
\* C24: stock_quantity of every product is never negative, whatever sequence
\* of create_order, cancel_order and update_order calls runs from non-negative
\* stock, orders naming one product in several items included.
C24_StockNeverNegative == \A p \in ProductIds : products[p] >= 0

\* the quantity of product p the non-cancelled orders hold
RECURSIVE HeldBy(_, _, _)
HeldBy(ords, p, ids) ==
    IF ids = {} THEN 0
    ELSE LET o == CHOOSE x \in ids : TRUE
         IN  (IF ords[o] # None /\ Val(ords[o]).status # "cancelled"
              THEN QuantityOf(Val(ords[o]).items, p, 1) ELSE 0)
             + HeldBy(ords, p, ids \ {o})

\* C25: stock conservation: a product's stock_quantity plus the quantities its
\* non-cancelled orders hold stays what it was at the start (no order exists
\* then), through every create_order, update_order and cancel_order; an order's
\* items go back to stock at most once and stock never exceeds the initial stock.
C25_StockConserved ==
    [][\A p \in ProductIds :
          products'[p] + HeldBy(orders', p, OrderIds)
              = products[p] + HeldBy(orders, p, OrderIds)]_vars

(***************************************************************************)
(* From the submitted reading to the feature vector                        *)
(***************************************************************************)
\* C26: every trackable value submitted through add_water_quality_reading
\* (temperature, pH, dissolved oxygen, turbidity, ammonia, nitrite) is stored,
\* and with that reading as the tank's latest the feature vector holds the
\* submitted value in its slot and the field is not reported missing.
C26_SubmittedValuesReachPredictor ==
    (last_request.op = "add_water_quality_reading" /\ last_request.outcome = "response") =>
        \A k \in 1..Len(TrackableSlots) :
            Val(last_request.submitted)[TrackableSlots[k].field] # None =>
                /\ Val(NewestRow(last_request.tank_id))[TrackableSlots[k].field]
                     = Val(last_request.submitted)[TrackableSlots[k].field]
                /\ _prepare_features(Val(NewestRow(last_request.tank_id))).features[TrackableSlots[k].slot]
                     = Val(last_request.submitted)[TrackableSlots[k].field]
                /\ ~InSeq(TrackableSlots[k].field,
                          _prepare_features(Val(NewestRow(last_request.tank_id))).missing)

(***************************************************************************)
(* The session store: isolation and lifecycle                              *)
(***************************************************************************)
\* C27: add_message and clear on session A never change the history or the
\* last-activity timestamp of a session B different from A, whatever way the
\* operations of handlers of different sessions interleave.
C27_SessionsIsolated ==
    [][(mem_last'.op \in {"add_message", "clear"} /\ now' = now) =>
          \A sid \in SessionIds \ {memories[mem_last'.memory].session_id} :
              /\ _sessions'[sid] = _sessions[sid]
              /\ _session_timestamps'[sid] = _session_timestamps[sid]]_vars

\* a message was added to sess_1 at minute 2 while sess_2 keeps its message and
\* its last activity of minute 1
C27_Witness ==
    /\ mem_last.op = "add_message"
    /\ memories[mem_last.memory].session_id = "sess_1"
    /\ now = 2
    /\ _session_timestamps["sess_1"] = Some(2)
    /\ _session_timestamps["sess_2"] = Some(1)
    /\ Len(get_history(_sessions, "sess_2")) = 1

\* the session ids that are keys of a class-level dict
KeysOf(dict) == {sid \in SessionIds : dict[sid] # None}

\* the sessions whose last activity is older than the timeout
OlderThan(timeout_minutes) ==
    {sid \in SessionIds :
        /\ _session_timestamps[sid] # None
        /\ now - Val(_session_timestamps[sid]) > timeout_minutes}

\* C28: the ids with a history are always the ids with a last-activity
\* timestamp, through construction, add_message, clear, get_history and
\* cleanup_expired_sessions; cleanup_expired_sessions removes exactly the
\* sessions whose last activity is older than the timeout from both maps,
\* returns their number and leaves the others untouched; a handler of a removed
\* session can add messages afterwards.
C28_StoreConsistent ==
    /\ [](KeysOf(_sessions) = KeysOf(_session_timestamps))
    /\ [][(mem_last'.op = "cleanup_expired_sessions" /\ now' = now) =>
             /\ \A sid \in OlderThan(mem_last'.timeout_minutes) :
                   _sessions'[sid] = None /\ _session_timestamps'[sid] = None
             /\ \A sid \in SessionIds \ OlderThan(mem_last'.timeout_minutes) :
                   /\ _sessions'[sid] = _sessions[sid]
                   /\ _session_timestamps'[sid] = _session_timestamps[sid]
             /\ mem_last'.count = Cardinality(OlderThan(mem_last'.timeout_minutes))]_vars
    /\ [][(mem_last'.op = "add_message" /\ mem_last'.key_absent /\ now' = now) =>
             /\ Len(get_history(_sessions', memories[mem_last'.memory].session_id)) = 1
             /\ _session_timestamps'[memories[mem_last'.memory].session_id] = Some(now)]_vars

\* at minute 2 a sweep with timeout 1 removed sess_1 (idle since minute 0) and
\* kept sess_2 (active at minute 1); a handler of sess_1 then added a message
C28_Witness ==
    /\ mem_last.op = "add_message"
    /\ mem_last.key_absent
    /\ memories[mem_last.memory].session_id = "sess_1"
    /\ now = 2
    /\ _session_timestamps["sess_1"] = Some(2)
    /\ _session_timestamps["sess_2"] = Some(1)
    /\ Len(get_history(_sessions, "sess_1")) = 1
    /\ Len(get_history(_sessions, "sess_2")) >= 1

(***************************************************************************)
(* Per-user isolation of tanks and their readings                          *)
(***************************************************************************)
\* the requests on a tank and its readings that carry a user
TankRequests ==
    {"get_tank", "add_water_quality_reading", "get_water_quality_readings",
     "get_latest_water_quality"}

\* C30: a request made as user U on a tank that belongs to another user behaves
\* as it does for a tank that does not exist and changes nothing: get tank,
\* add reading and latest reading answer not found, listing the readings
\* returns no row, and the readings table is left as it was.
C30_PerUserIsolation ==
    [][(/\ last_request.op = "none"
        /\ last_request'.op \in TankRequests
        /\ last_request'.tank_id \in TankIds
        /\ TankOwner[last_request'.tank_id] # last_request'.user_id) =>
          /\ last_request'.rows = <<>>
          /\ last_request'.op # "get_water_quality_readings"
                => last_request'.outcome = "not_found"
          /\ db_readings' = db_readings]_vars

(***************************************************************************)
(* DiseaseClassifier: what predict returns                                 *)
(***************************************************************************)
DiseaseArgs == Val(disease_call.args)

DiseaseRet == Val(disease_call.result).ret

\* C29: for every probability vector the result has at most 3 diseases, in
\* non-increasing confidence order, each with confidence at least 0.2 and a
\* label of the label map; 'Healthy Fish' only with confidence at least 0.7;
\* and predict returns [] without raising when the model is not loaded or a
\* step fails.
C29_TopThreeAboveThreshold ==
    disease_call.result # None =>
        /\ Val(disease_call.result).raised = "none"
        /\ Len(DiseaseRet) <= 3
        /\ \A k \in 1..(Len(DiseaseRet) - 1) :
              DiseaseRet[k].confidence >= DiseaseRet[k + 1].confidence
        /\ \A k \in 1..Len(DiseaseRet) :
              /\ DiseaseRet[k].confidence >= 200
              /\ DiseaseRet[k].confidence = DiseaseArgs.predictions[DiseaseRet[k].idx]
              /\ DiseaseArgs.label_map[DiseaseRet[k].idx] = Some(DiseaseRet[k].label)
              /\ DiseaseRet[k].label = "Healthy Fish" => DiseaseRet[k].confidence >= 700
        /\ (~DiseaseArgs.model_loaded \/ DiseaseArgs.step # "ok") => DiseaseRet = <<>>

\* five classes reach the threshold: the unlabelled class 3 and 'Healthy Fish'
\* at 0.2 are passed over and the other three are returned
C29_Witness ==
    /\ disease_call.result # None
    /\ DiseaseArgs.model_loaded
    /\ DiseaseArgs.step = "ok"
    /\ DiseaseArgs.predictions = [i \in Classes |-> IF i \in {0, 2, 3, 4, 6} THEN 200 ELSE 0]
    /\ DiseaseArgs.label_map[3] = None
    /\ Len(DiseaseRet) = 3
    /\ \A k \in 1..3 : DiseaseRet[k].idx \in {0, 2, 6}

====
